---- MODULE Spec2Model ----
(***************************************************************************)
(* Model of the SPN layout core of bonc-ui: the permutation engine         *)
(* (utils/spn), the network model builder (components/SPNDiagram) and the  *)
(* highlight correlator (routes/spn_visualizer).                           *)
(*                                                                         *)
(* A JavaScript array is modelled as a record [length, at]: `at` is the    *)
(* function from the indexes that hold an element to the elements.  An     *)
(* index below `length` that is not in DOMAIN at is a hole (it reads as    *)
(* undefined and is skipped by forEach/some/map); a negative key is a      *)
(* plain property that does not count as an element.                       *)
(***************************************************************************)
EXTENDS Integers, Sequences, FiniteSets, TLC

\* ------------------------------------------------------------------ bounds

\* Longest permutation / widest block drawn as an input.
MaxLen == 3
\* Largest round count drawn as an input.
MaxRounds == 2
\* Longest bijection drawn as an input of the calls that take a valid permutation.
MaxBlock == 4

\* Widest block of the layouts the page is given.
MaxWidth == 3
\* Longest highlight trace, in rounds.
MaxTrace == 2

\* The most fields of the form that are edited.
MaxEdits == 2
\* the most characters of a state line of a trace
MaxColumns == 2
\* The requests the server receives.
MaxRequests == 2
\* The most pieces of terminal output in a stream.
MaxPieces == 3

\* ------------------------------------------------------------- JS arrays

\* new Array(n): n holes.
NewArray(n) == [length |-> n, at |-> <<>>]

\* The element indexes of an array (holes and properties left out).
Indexes(a) == {i \in DOMAIN a.at : i >= 0 /\ i < a.length}

\* a[i] = v
ArraySet(a, i, v) ==
  [length |-> IF i >= a.length THEN i + 1 ELSE a.length,
   at |-> (i :> v) @@ a.at]

\* a.slice(): the elements, without the properties.
ArraySlice(a) == [length |-> a.length, at |-> [i \in Indexes(a) |-> a.at[i]]]

\* a.slice(from, to) of a dense array, 0 <= from.
ArraySliceRange(a, from, to) ==
  LET end == IF to > a.length THEN a.length ELSE to
      n == IF end > from THEN end - from ELSE 0
  IN [length |-> n,
      at |-> [i \in {j \in 0..(n - 1) : (from + j) \in DOMAIN a.at} |-> a.at[from + i]]]

\* Array.from({ length: n }, (_, i) => i); a negative length counts as 0.
IdentityArray(n) ==
  LET len == IF n > 0 THEN n ELSE 0
  IN [length |-> len, at |-> [i \in 0..(len - 1) |-> i]]

\* An array without holes.
IsDense(a) == DOMAIN a.at = 0..(a.length - 1)

\* The dense arrays of length n over the set S.
DenseArrays(S, n) == {[length |-> n, at |-> f] : f \in [0..(n - 1) -> S]}

\* a function's result: a returned value or a thrown error.
Return(v) == [threw |-> FALSE, value |-> v]
Throw(e) == [threw |-> TRUE, error |-> e]

\* ------------------------------------------------------------ strings
\* A string is the sequence of its characters, each a one-character string.

\* The string value of a character sequence.
RECURSIVE Text(_)
Text(chars) == IF chars = <<>> THEN "" ELSE Head(chars) \o Text(Tail(chars))

\* \s of a regular expression, String.prototype.trim
IsSpace(c) == c \in {" ", "\n", "\t"}

RECURSIVE TrimStart(_)
TrimStart(chars) ==
  IF chars # <<>> /\ IsSpace(Head(chars)) THEN TrimStart(Tail(chars)) ELSE chars

RECURSIVE TrimEnd(_)
TrimEnd(chars) ==
  IF chars # <<>> /\ IsSpace(chars[Len(chars)])
  THEN TrimEnd(SubSeq(chars, 1, Len(chars) - 1))
  ELSE chars

Trim(chars) == TrimEnd(TrimStart(chars))

UpperCase == <<"A", "B", "C", "D", "E", "F", "H", "L", "Q", "X", "Z">>
LowerCase == <<"a", "b", "c", "d", "e", "f", "h", "l", "q", "x", "z">>

\* String.prototype.toLowerCase, one character
LowerChar(c) ==
  IF \E k \in DOMAIN UpperCase : UpperCase[k] = c
  THEN LowerCase[CHOOSE k \in DOMAIN UpperCase : UpperCase[k] = c]
  ELSE c

ToLowerCase(chars) == [k \in DOMAIN chars |-> LowerChar(chars[k])]

\* text.split(separator) for a one-character separator: every occurrence
\* cuts, so neighbouring separators leave an empty piece between them.
\* `pieces` are the pieces cut so far and `piece` the one being read.
RECURSIVE SplitFrom(_, _, _, _)
SplitFrom(chars, separator, pieces, piece) ==
  IF chars = <<>> THEN Append(pieces, piece)
  ELSE IF Head(chars) = separator
  THEN SplitFrom(Tail(chars), separator, Append(pieces, piece), <<>>)
  ELSE SplitFrom(Tail(chars), separator, pieces, Append(piece, Head(chars)))

SplitChar(chars, separator) == SplitFrom(chars, separator, <<>>, <<>>)

\* Mutant of NonEmpty: every piece is kept.
NonEmpty_All(pieces) == pieces

\* The pieces kept by .filter(Boolean): the non-empty ones.
NonEmpty(pieces) == SelectSeq(pieces, LAMBDA piece : piece # <<>>)

Digits == <<"0", "1", "2", "3", "4", "5", "6", "7", "8", "9",
            "a", "b", "c", "d", "e", "f">>

IsDigit(c, radix) ==
  \E k \in 1..radix : Digits[k] = LowerChar(c)

DigitValue(c) == (CHOOSE k \in DOMAIN Digits : Digits[k] = LowerChar(c)) - 1

\* The longest prefix of digits of the radix, as a number; -1 when there is
\* no digit at all.
RECURSIVE DigitRun(_, _, _, _)
DigitRun(chars, radix, seen, value) ==
  IF chars # <<>> /\ IsDigit(Head(chars), radix)
  THEN DigitRun(Tail(chars), radix, TRUE, value * radix + DigitValue(Head(chars)))
  ELSE IF seen THEN value ELSE -1

NaN == [nan |-> TRUE]
Number(n) == [nan |-> FALSE, value |-> n]

\* Number.parseInt(string, radix) for radix 0, 10 or 16: leading white space
\* and a sign are skipped, radix 0 and 16 accept a 0x prefix, the digits stop
\* at the first character that is no digit, and no digit at all gives NaN.
HasSign(chars) == chars # <<>> /\ Head(chars) \in {"+", "-"}

HasHexPrefix(chars, radix) ==
  /\ radix \in {0, 16}
  /\ Len(chars) >= 2
  /\ chars[1] = "0"
  /\ LowerChar(chars[2]) = "x"

\* The digits after the sign, as a number or -1.
ParseUnsigned(chars, radix) ==
  DigitRun(IF HasHexPrefix(chars, radix) THEN SubSeq(chars, 3, Len(chars)) ELSE chars,
           IF HasHexPrefix(chars, radix) THEN 16 ELSE IF radix = 0 THEN 10 ELSE radix,
           FALSE, 0)

Signed(negative, magnitude) ==
  IF magnitude < 0 THEN NaN
  ELSE Number(IF negative THEN 0 - magnitude ELSE magnitude)

ParseTrimmed(chars, radix) ==
  Signed(HasSign(chars) /\ Head(chars) = "-",
         ParseUnsigned(IF HasSign(chars) THEN Tail(chars) ELSE chars, radix))

ParseInt(chars, radix) == ParseTrimmed(TrimStart(chars), radix)

\* ------------------------------------------- utils/spn: parseNumberList

\* text.split(/[\s,;]+/): a run of separators cuts once; a run at either
\* end leaves an empty token there.
IsSeparator(c) == IsSpace(c) \/ c \in {",", ";"}

\* The positions where a token starts, and the token that starts there.
TokenStarts(chars) ==
  {i \in DOMAIN chars : /\ ~IsSeparator(chars[i])
                        /\ (i = 1 \/ IsSeparator(chars[i - 1]))}

TokenAt(chars, i) ==
  SubSeq(chars, i, CHOOSE j \in i..Len(chars) :
                     /\ \A k \in i..j : ~IsSeparator(chars[k])
                     /\ (j = Len(chars) \/ IsSeparator(chars[j + 1])))

\* The tokens that start at `starts`, in the order of the text.
TokensAt(chars, starts) ==
  [n \in 1..Cardinality(starts) |->
     TokenAt(chars, CHOOSE i \in starts : Cardinality({j \in starts : j < i}) = n - 1)]

SplitTokens(chars) ==
  (IF chars = <<>> \/ IsSeparator(chars[1]) THEN << <<>> >> ELSE <<>>)
  \o TokensAt(chars, TokenStarts(chars))
  \o (IF chars # <<>> /\ IsSeparator(chars[Len(chars)]) THEN << <<>> >> ELSE <<>>)

\* .map((piece) => piece.trim())
Trimmed(pieces) == [k \in DOMAIN pieces |-> Trim(pieces[k])]

\* The token as Number.parseInt reads it: a trailing h becomes a 0x prefix.
Normalized(lower) ==
  IF lower[Len(lower)] = "h"
  THEN <<"0", "x">> \o SubSeq(lower, 1, Len(lower) - 1)
  ELSE lower

TokenValue(token, value) ==
  IF value.nan
  THEN Throw("Unable to parse number token \"" \o Text(token) \o "\"")
  ELSE Return(value.value)

\* parseNumberToken(token)
parseNumberToken(token) ==
  IF token = <<>> THEN Throw("Encountered empty numeric token")
  ELSE TokenValue(token, ParseInt(Normalized(ToLowerCase(token)), 0))

\* array.map(f) where f may throw: `results` are f's results in order; the
\* first throw ends the call, otherwise the values are returned.
MapResults(results) ==
  IF \E k \in DOMAIN results : results[k].threw
  THEN results[CHOOSE k \in DOMAIN results :
                 /\ results[k].threw
                 /\ \A j \in 1..(k - 1) : ~results[j].threw]
  ELSE Return([k \in DOMAIN results |-> results[k].value])

ArrayResult(result) ==
  IF result.threw THEN result
  ELSE Return([length |-> Len(result.value),
               at |-> [i \in 0..(Len(result.value) - 1) |-> result.value[i + 1]]])

\* tokens.map(parseNumberToken)
MapTokens(tokens) ==
  ArrayResult(MapResults([k \in DOMAIN tokens |-> parseNumberToken(tokens[k])]))

\* parseNumberList(text)
parseNumberList(text) == MapTokens(NonEmpty(Trimmed(SplitTokens(text))))

\* ------------------------------------------------------- utils/spn (part_000)

\* permutation.some((value) => value === blockSize)
HasOneBased(permutation, blockSize) ==
  \E i \in Indexes(permutation) : permutation.at[i] = blockSize

\* Mutant of Adjusted: only the entries equal to blockSize are decremented.
Adjusted_PerEntry(permutation, blockSize) ==
  [length |-> permutation.length,
   at |-> [i \in Indexes(permutation) |->
             IF permutation.at[i] = blockSize THEN permutation.at[i] - 1
             ELSE permutation.at[i]]]

\* permutation.map((value) => value - 1) or permutation.slice()
Adjusted(permutation, blockSize) ==
  IF HasOneBased(permutation, blockSize)
  THEN [length |-> permutation.length,
        at |-> [i \in Indexes(permutation) |-> permutation.at[i] - 1]]
  ELSE ArraySlice(permutation)

\* adjusted.forEach(...): the first offending entry throws.
RECURSIVE CheckPositions(_, _, _, _)
CheckPositions(adjusted, blockSize, i, seen) ==
  IF i >= adjusted.length THEN Return(adjusted)
  ELSE IF i \notin DOMAIN adjusted.at
       THEN CheckPositions(adjusted, blockSize, i + 1, seen)
  ELSE LET value == adjusted.at[i]
       IN IF value < 0 \/ value >= blockSize THEN Throw("outside")
          ELSE IF value \in seen THEN Throw("repeats")
          ELSE CheckPositions(adjusted, blockSize, i + 1, seen \cup {value})

\* normalizePermutation(permutation, blockSize).  The result also carries the
\* argument array as the call leaves it (the code only reads it).
normalizePermutation(permutation, blockSize) ==
  IF permutation.length # blockSize
  THEN [threw |-> TRUE, error |-> "length", permutation |-> permutation]
  ELSE LET r == CheckPositions(Adjusted(permutation, blockSize), blockSize, 0, {})
       IN IF r.threw
          THEN [threw |-> TRUE, error |-> r.error, permutation |-> permutation]
          ELSE [threw |-> FALSE, value |-> r.value, permutation |-> permutation]

\* Mutant of FillInverse: inverse[index] = target, a copy instead of an inverse.
FillInverse_Copy(inverse, permutation, index) ==
  [length |-> inverse.length,
   at |-> [i \in 0..(inverse.length - 1) |->
             IF i \in Indexes(permutation) THEN permutation.at[i] ELSE inverse.at[i]]]

\* permutation.forEach((target, index) => { inverse[target] = index })
RECURSIVE FillInverse(_, _, _)
FillInverse(inverse, permutation, index) ==
  IF index >= permutation.length THEN inverse
  ELSE IF index \notin DOMAIN permutation.at
       THEN FillInverse(inverse, permutation, index + 1)
  ELSE FillInverse(ArraySet(inverse, permutation.at[index], index),
                   permutation, index + 1)

\* new Array(n).fill(-1)
FilledArray(n, v) == [length |-> n, at |-> [i \in 0..(n - 1) |-> v]]

\* Mutant of invertPermutation: the unfilled-slot test is left out.
invertPermutation_NoCheck(permutation) ==
  Return(FillInverse(FilledArray(permutation.length, -1), permutation, 0))

\* invertPermutation(permutation)
invertPermutation(permutation) ==
  LET inverse == FillInverse(FilledArray(permutation.length, -1), permutation, 0)
  IN IF \E i \in Indexes(inverse) : inverse.at[i] = -1
     THEN Throw("not a bijection")
     ELSE Return(inverse)

\* permutation.forEach((position, index) => { next[position] = values[index] })
\* (an absent values[index] is written as a hole: both read as undefined)
RECURSIVE ApplyLoop(_, _, _, _)
ApplyLoop(next, values, permutation, index) ==
  IF index >= permutation.length THEN next
  ELSE IF index \notin DOMAIN permutation.at
       THEN ApplyLoop(next, values, permutation, index + 1)
  ELSE IF index \notin Indexes(values)
       THEN ApplyLoop(next, values, permutation, index + 1)
  ELSE ApplyLoop(ArraySet(next, permutation.at[index], values.at[index]),
                 values, permutation, index + 1)

\* Mutant of applyPermutation: source-indexed, next[i] = values[permutation[i]].
applyPermutation_SourceIndexed(values, permutation) ==
  [length |-> values.length,
   at |-> [i \in Indexes(values) |->
             IF i \in Indexes(permutation) /\ permutation.at[i] \in Indexes(values)
             THEN values.at[permutation.at[i]] ELSE values.at[i]]]

\* applyPermutation(values, permutation) of utils/spn
applyPermutation(values, permutation) ==
  ApplyLoop(ArraySlice(values), values, permutation, 0)

\* JavaScript's a % b = 0 for a >= 0 (b = 0 gives NaN, which is not 0).
RemainderIsZero(a, b) == b # 0 /\ a % (IF b < 0 THEN 0 - b ELSE b) = 0

\* Mutant of SequentialSBoxes: every round slices the identity order.
SequentialSBoxes_Unpermuted(bitOrder, sBoxSize, boxesPerRound, roundIndex) ==
  [boxIndex1 \in 1..boxesPerRound |->
     LET boxIndex == boxIndex1 - 1
         sliceStart == boxIndex * sBoxSize
     IN [id |-> "S" \o ToString(roundIndex + 1) \o "." \o ToString(boxIndex + 1),
         bitIndexes |-> ArraySliceRange(IdentityArray(bitOrder.length), sliceStart,
                                        sliceStart + sBoxSize)]]

\* The S-boxes of one round: Array.from({ length: boxesPerRound }, ...)
SequentialSBoxes(bitOrder, sBoxSize, boxesPerRound, roundIndex) ==
  [boxIndex1 \in 1..boxesPerRound |->
     LET boxIndex == boxIndex1 - 1
         sliceStart == boxIndex * sBoxSize
     IN [id |-> "S" \o ToString(roundIndex + 1) \o "." \o ToString(boxIndex + 1),
         bitIndexes |-> ArraySliceRange(bitOrder, sliceStart, sliceStart + sBoxSize)]]

\* The rounds from roundIndex on: Array.from({ length: numberOfRounds }, ...)
RECURSIVE SequentialRounds(_, _, _, _, _, _)
SequentialRounds(bitOrder, sBoxSize, boxesPerRound, numberOfRounds, permutation, roundIndex) ==
  IF roundIndex >= numberOfRounds THEN <<>>
  ELSE LET round == [name |-> "Round " \o ToString(roundIndex + 1),
                     sBoxes |-> SequentialSBoxes(bitOrder, sBoxSize, boxesPerRound, roundIndex)]
           nextOrder == IF roundIndex < numberOfRounds - 1
                        THEN applyPermutation(bitOrder, permutation)
                        ELSE bitOrder
       IN <<round>> \o SequentialRounds(nextOrder, sBoxSize, boxesPerRound,
                                         numberOfRounds, permutation, roundIndex + 1)

\* generateSequentialRounds(blockSize, sBoxSize, numberOfRounds, permutation)
generateSequentialRounds(blockSize, sBoxSize, numberOfRounds, permutation) ==
  IF ~RemainderIsZero(blockSize, sBoxSize)
  THEN Throw("not divisible")
  ELSE Return(SequentialRounds(IdentityArray(blockSize), sBoxSize, blockSize \div sBoxSize,
                               numberOfRounds, permutation, 0))

\* sanitizeConfig(config); config.rounds = <<>> with hasRounds FALSE stands for
\* an absent `rounds`.
sanitizeConfig(config) ==
  LET normalized == normalizePermutation(config.pBox, config.blockSize)
  IN IF normalized.threw THEN Throw(normalized.error)
     ELSE LET rounds == IF config.hasRounds THEN Return(config.rounds)
                        ELSE generateSequentialRounds(config.blockSize, config.sBox.size,
                                                      config.numberOfRounds, normalized.value)
          IN IF rounds.threw THEN Throw(rounds.error)
             ELSE Return([config EXCEPT !.pBox = normalized.value,
                                        !.rounds = rounds.value,
                                        !.hasRounds = TRUE])

\* ------------------------------------------- components/SPNDiagram.tsx

stageSpacing == 180
bitSpacing == 28
marginX == 80
marginY == 50
sboxWidth == 74

\* a[i] = undefined: the slot exists and reads as undefined.
ArraySetUndefined(a, i) ==
  [length |-> IF i >= a.length THEN i + 1 ELSE a.length,
   at |-> [k \in DOMAIN a.at \ {i} |-> a.at[k]]]

\* for (i = 0; i < order.length; i += 1) next[permutation[i]] = order[i]
\* (with permutation[i] undefined the write goes to the property "undefined")
RECURSIVE DiagramApplyLoop(_, _, _, _)
DiagramApplyLoop(next, order, permutation, i) ==
  IF i >= order.length THEN next
  ELSE IF i \notin Indexes(permutation)
       THEN DiagramApplyLoop(next, order, permutation, i + 1)
  ELSE IF i \notin Indexes(order)
       THEN DiagramApplyLoop(ArraySetUndefined(next, permutation.at[i]),
                             order, permutation, i + 1)
  ELSE DiagramApplyLoop(ArraySet(next, permutation.at[i], order.at[i]),
                        order, permutation, i + 1)

\* Mutant of SPNDiagram_applyPermutation: the loop starts at i = 1.
SPNDiagram_applyPermutation_FromOne(order, permutation) ==
  DiagramApplyLoop(NewArray(order.length), order, permutation, 1)

\* Mutant of SPNDiagram_applyPermutation: source-indexed,
\* next[i] = order[permutation[i]].
SPNDiagram_applyPermutation_SourceIndexed(order, permutation) ==
  [length |-> order.length,
   at |-> [i \in {j \in Indexes(permutation) : permutation.at[j] \in Indexes(order)}
             |-> order.at[permutation.at[i]]]]

\* applyPermutation(order, permutation) of SPNDiagram
SPNDiagram_applyPermutation(order, permutation) ==
  DiagramApplyLoop(NewArray(order.length), order, permutation, 0)

\* Mutant of ShouldPermute: the final-permutation flag is ignored.
ShouldPermute_NeverFinal(config, roundIndex) ==
  roundIndex < config.numberOfRounds - 1

\* config.applyFinalPermutation ? true : roundIndex < config.numberOfRounds - 1
ShouldPermute(config, roundIndex) ==
  IF config.applyFinalPermutation THEN TRUE
  ELSE roundIndex < config.numberOfRounds - 1

\* round?.name ?? `Round ${roundIndex + 1}`
RoundLabel(config, roundIndex) ==
  IF config.hasRounds /\ (roundIndex + 1) \in DOMAIN config.rounds
  THEN config.rounds[roundIndex + 1].name
  ELSE "Round " \o ToString(roundIndex + 1)

\* The stages pushed from round roundIndex on, the output stage last.
RECURSIVE StagesFrom(_, _, _)
StagesFrom(config, currentOrder, roundIndex) ==
  IF roundIndex >= config.numberOfRounds
  THEN <<[id |-> "output", label |-> "Output", type |-> "output",
          bits |-> ArraySlice(currentOrder)]>>
  ELSE LET sbox == [id |-> "round-" \o ToString(roundIndex) \o "-sbox",
                    label |-> RoundLabel(config, roundIndex),
                    type |-> "sbox",
                    roundIndex |-> roundIndex,
                    bits |-> ArraySlice(currentOrder)]
       IN IF ShouldPermute(config, roundIndex)
          THEN LET permuted == SPNDiagram_applyPermutation(currentOrder, config.pBox)
               IN <<sbox,
                    [id |-> "round-" \o ToString(roundIndex) \o "-perm",
                     label |-> "Permutation",
                     type |-> "permutation",
                     roundIndex |-> roundIndex,
                     bits |-> ArraySlice(permuted)]>>
                  \o StagesFrom(config, permuted, roundIndex + 1)
          ELSE <<sbox>> \o StagesFrom(config, currentOrder, roundIndex + 1)

\* buildStages(config)
buildStages(config) ==
  LET bitOrder == IdentityArray(config.blockSize)
  IN <<[id |-> "input", label |-> "Input", type |-> "input",
        bits |-> ArraySlice(bitOrder)]>>
     \o StagesFrom(config, ArraySlice(bitOrder), 0)

\* One stage's bitMap: bitMap[bitId] = { y }, a later position overwriting an
\* earlier one of the same bit.
BitMap(stage) ==
  LET ids == {stage.bits.at[i] : i \in Indexes(stage.bits)}
      last(bitId) == CHOOSE i \in Indexes(stage.bits) :
                       /\ stage.bits.at[i] = bitId
                       /\ \A j \in Indexes(stage.bits) :
                            stage.bits.at[j] = bitId => j <= i
  IN [bitId \in ids |-> [y |-> marginY + last(bitId) * bitSpacing]]

\* mapBitPositions(stages): result[stage.id] = bitMap, a later stage
\* overwriting an earlier one of the same id.
mapBitPositions(stages) ==
  LET ids == {stages[k].id : k \in DOMAIN stages}
      last(id) == CHOOSE k \in DOMAIN stages :
                    /\ stages[k].id = id
                    /\ \A j \in DOMAIN stages : stages[j].id = id => j <= k
  IN [id \in ids |-> BitMap(stages[last(id)])]

\* The string made of the given pieces, in order.
RECURSIVE Join(_)
Join(parts) == IF parts = <<>> THEN "" ELSE Head(parts) \o Join(Tail(parts))

\* Mutant of SegmentId: the wire is keyed by the bit it carries.
SegmentId_ByBit(fromStage, toStage, bitId, index) ==
  <<fromStage.id, "->", toStage.id, "#", ToString(bitId)>>

\* `${fromStage.id}->${toStage.id}#${index}`, as its pieces
SegmentId(fromStage, toStage, bitId, index) ==
  <<fromStage.id, "->", toStage.id, "#", ToString(index)>>

\* fromStage.bits.forEach((bitId, index) => ...): the segments from position
\* `index` on.  idParts keeps the pieces the id string is made of.
RECURSIVE SegmentsFrom(_, _, _, _, _)
SegmentsFrom(fromStage, toStage, positions, stageIndex, index) ==
  IF index >= fromStage.bits.length THEN <<>>
  ELSE LET rest == SegmentsFrom(fromStage, toStage, positions, stageIndex, index + 1)
       IN IF index \notin Indexes(fromStage.bits) THEN rest
          ELSE LET bitId == fromStage.bits.at[index]
                   hasFrom == fromStage.id \in DOMAIN positions
                                /\ bitId \in DOMAIN positions[fromStage.id]
                   hasTo == toStage.id \in DOMAIN positions
                              /\ bitId \in DOMAIN positions[toStage.id]
               IN IF ~hasFrom \/ ~hasTo THEN rest
                  ELSE LET x1 == marginX + stageIndex * stageSpacing
                           x2 == marginX + (stageIndex + 1) * stageSpacing
                                   - (IF toStage.type = "sbox" THEN sboxWidth ELSE 0)
                           fromPos == positions[fromStage.id][bitId]
                           toPos == positions[toStage.id][bitId]
                           idParts == SegmentId(fromStage, toStage, bitId, index)
                       IN <<[id |-> Join(idParts),
                             idParts |-> idParts,
                             fromStage |-> fromStage.id,
                             toStage |-> toStage.id,
                             bit |-> bitId,
                             path |-> [x1 |-> x1, y1 |-> fromPos.y,
                                       midX |-> (x1 + x2) \div 2,
                                       x2 |-> x2, y2 |-> toPos.y]]>>
                          \o rest

\* for (index = 0; index < stages.length - 1; index += 1) ...
RECURSIVE ConnectionsFrom(_, _, _)
ConnectionsFrom(stages, positions, stageIndex) ==
  IF stageIndex >= Len(stages) - 1 THEN <<>>
  ELSE SegmentsFrom(stages[stageIndex + 1], stages[stageIndex + 2], positions, stageIndex, 0)
       \o ConnectionsFrom(stages, positions, stageIndex + 1)

\* buildConnections(stages, bitPositions, styles) with no styles
buildConnections(stages, positions) == ConnectionsFrom(stages, positions, 0)

\* --------------------------------- routes/spn_visualizer (part_001, second file)

\* Mutant of SourceBit: the bit's own index, the permutation not traced back.
SourceBit_Same(inversePermutation, bit) == bit

\* const sourceBit = inversePermutation[bit]
SourceBit(inversePermutation, bit) == inversePermutation.at[bit]

\* The selectors pushed for one bit of one round.
BitSelectors(round, bit, config, inversePermutation) ==
  IF bit < 0 \/ bit >= config.blockSize THEN <<>>
  ELSE IF round = 0 THEN <<"#input-\\>round-0-sbox\\#" \o ToString(bit)>>
  ELSE <<"#round-" \o ToString(round - 1) \o "-perm-\\>round-" \o ToString(round)
           \o "-sbox\\#" \o ToString(bit)>>
       \o (IF bit \in Indexes(inversePermutation)
           THEN <<"#round-" \o ToString(round - 1) \o "-sbox-\\>round-"
                    \o ToString(round - 1) \o "-perm\\#"
                    \o ToString(SourceBit(inversePermutation, bit))>>
           ELSE <<>>)

\* for (const bit of highlights[round] ?? []) ...
RECURSIVE RoundSelectors(_, _, _, _, _)
RoundSelectors(bits, k, round, config, inversePermutation) ==
  IF k > Len(bits) THEN <<>>
  ELSE BitSelectors(round, bits[k], config, inversePermutation)
       \o RoundSelectors(bits, k + 1, round, config, inversePermutation)

\* Mutant of RoundCount: every round of the trace is walked.
RoundCount_All(highlights, config) == Len(highlights)

\* Math.min(highlights.length, config.numberOfRounds)
RoundCount(highlights, config) ==
  IF Len(highlights) < config.numberOfRounds THEN Len(highlights)
  ELSE config.numberOfRounds

\* for (let round = 0; round < roundCount; round++) ...
RECURSIVE SelectorsFrom(_, _, _, _)
SelectorsFrom(highlights, config, inversePermutation, round) ==
  IF round >= RoundCount(highlights, config) THEN <<>>
  ELSE RoundSelectors(highlights[round + 1], 1, round, config, inversePermutation)
       \o SelectorsFrom(highlights, config, inversePermutation, round + 1)

\* buildHighlightSelectors(highlights, config, inversePermutation)
buildHighlightSelectors(highlights, config, inversePermutation) ==
  SelectorsFrom(highlights, config, inversePermutation, 0)

\* CSS.escape of one piece of an id: '>' and '#' take a backslash (the stage
\* ids are letters, digits and '-' and need none).
CssEscape(part) ==
  IF part = "->" THEN "-\\>" ELSE IF part = "#" THEN "\\#" ELSE part

RECURSIVE EscapedId(_)
EscapedId(parts) ==
  IF parts = <<>> THEN "" ELSE CssEscape(Head(parts)) \o EscapedId(Tail(parts))

\* The CSS id selector that matches the <path id={connection.id}> element of
\* a segment.
PathSelector(segment) == "#" \o EscapedId(segment.idParts)

\* ------------------------------- routes/spn_visualizer: parseConfig (part_001)

Null == [null |-> TRUE]
NotNull(v) == [null |-> FALSE, value |-> v]

\* Mutant of parseIntegerField: a field that does not parse is dropped
\* without a message.
parseIntegerField_NoMessage(value, label, errors) ==
  IF Trim(value) = <<>> \/ ParseInt(value, 10).nan
  THEN [value |-> Null, errors |-> errors]
  ELSE [value |-> NotNull(ParseInt(value, 10).value), errors |-> errors]

\* The field's number once Number.parseInt has read it.
IntegerOf(parsed, value, label, errors) ==
  IF parsed.nan
  THEN [value |-> Null,
        errors |-> Append(errors, "\"" \o Text(value)
                                  \o "\" is not a valid number for " \o label)]
  ELSE [value |-> NotNull(parsed.value), errors |-> errors]

\* parseIntegerField(value, label, errors): the number or null, and the
\* error list as the call leaves it.
parseIntegerField(value, label, errors) ==
  IF Trim(value) = <<>>
  THEN [value |-> Null,
        errors |-> Append(errors, "Please enter a value for " \o label)]
  ELSE IntegerOf(ParseInt(value, 10), value, label, errors)

\* 1 << n on 32-bit integers: the shift count is n modulo 32.
ShiftLeftOne(n) ==
  LET count == n % 32
  IN IF count = 31 THEN (0 - 2147483647) - 1 ELSE 2 ^ count

\* errors.push(message) when the condition holds.
PushIf(condition, errors, message) ==
  IF condition THEN Append(errors, message) ELSE errors

\* bits.forEach(...): the first bit outside 0..blockSize-1, or -1.
RECURSIVE FirstOutside(_, _, _)
FirstOutside(bits, blockSize, i) ==
  IF i >= bits.length THEN -1
  ELSE IF bits.at[i] < 0 \/ bits.at[i] >= blockSize THEN i
  ELSE FirstOutside(bits, blockSize, i + 1)

\* One group of a round: `bits` is parseNumberList(group) as it returned or
\* threw.
GroupBox(bits, index, roundIndex, blockSize, sBoxSize) ==
  IF bits.threw THEN bits
  ELSE IF bits.value.length # sBoxSize
  THEN Throw("S-Box " \o ToString(index + 1) \o " for round "
             \o ToString(roundIndex + 1) \o " must have "
             \o ToString(sBoxSize) \o " bits")
  ELSE IF FirstOutside(bits.value, blockSize, 0) >= 0
  THEN Throw("Bit index "
             \o ToString(bits.value.at[FirstOutside(bits.value, blockSize, 0)])
             \o " is outside 0.." \o ToString(blockSize - 1))
  ELSE Return([id |-> "R" \o ToString(roundIndex + 1) \o "S" \o ToString(index + 1),
               bitIndexes |-> bits.value])

\* groups.map((group, index) => ...)
MapGroups(groups, roundIndex, blockSize, sBoxSize) ==
  MapResults([k \in DOMAIN groups |->
                GroupBox(parseNumberList(groups[k]), k - 1, roundIndex,
                         blockSize, sBoxSize)])

\* sBoxes.flatMap((box) => box.bitIndexes).length
RECURSIVE AllBitsLength(_, _)
AllBitsLength(sBoxes, k) ==
  IF k = 0 THEN 0
  ELSE AllBitsLength(sBoxes, k - 1) + sBoxes[k].bitIndexes.length

\* Mutant of UniqueBits: the bits are counted, repeated ones included.
UniqueBits_Counted(sBoxes) == AllBitsLength(sBoxes, Len(sBoxes))

\* new Set(allBits).size
UniqueBits(sBoxes) ==
  Cardinality(UNION {{sBoxes[k].bitIndexes.at[i] : i \in Indexes(sBoxes[k].bitIndexes)} :
                       k \in DOMAIN sBoxes})

\* The round of the S-boxes read, once they cover the block.
RoundOf(sBoxes, label, roundIndex, blockSize) ==
  IF sBoxes.threw THEN sBoxes
  ELSE IF AllBitsLength(sBoxes.value, Len(sBoxes.value)) # blockSize
  THEN Throw("Round " \o ToString(roundIndex + 1) \o " must describe exactly "
             \o ToString(blockSize) \o " bits in total")
  ELSE IF UniqueBits(sBoxes.value) # blockSize
  THEN Throw("Round " \o ToString(roundIndex + 1) \o " must cover every bit exactly once")
  ELSE Return([name |-> label, sBoxes |-> sBoxes.value])

\* layoutPart.split('|').map(trim).filter(Boolean) and what follows.
GroupsLayout(groups, label, roundIndex, blockSize, sBoxSize) ==
  IF groups = <<>> THEN Throw("Each round needs at least one S-Box group")
  ELSE RoundOf(MapGroups(groups, roundIndex, blockSize, sBoxSize),
               label, roundIndex, blockSize)

HasColon(line) == \E k \in DOMAIN line : line[k] = ":"

\* const [left, right] = line.split(':', 2)
LeftOf(line) == SplitChar(line, ":")[1]
RightOf(line) == SplitChar(line, ":")[2]

\* label = left.trim() || label
LabelOf(line, roundIndex) ==
  IF HasColon(line) /\ Trim(LeftOf(line)) # <<>>
  THEN Text(Trim(LeftOf(line)))
  ELSE "Round " \o ToString(roundIndex + 1)

\* parseRoundLayoutLine(line, roundIndex, blockSize, sBoxSize)
parseRoundLayoutLine(line, roundIndex, blockSize, sBoxSize) ==
  IF HasColon(line) /\ Trim(RightOf(line)) = <<>>
  THEN Throw("Round layout label must be followed by bit groups")
  ELSE GroupsLayout(NonEmpty(Trimmed(SplitChar(IF HasColon(line) THEN RightOf(line)
                                                ELSE line, "|"))),
                    LabelOf(line, roundIndex), roundIndex, blockSize, sBoxSize)

\* lines.map((line, roundIndex) => parseRoundLayoutLine(...))
MapLines(lines, blockSize, sBoxSize) ==
  MapResults([k \in DOMAIN lines |->
                parseRoundLayoutLine(lines[k], k - 1, blockSize, sBoxSize)])

\* Mutant of LayoutLines: a single line is never reused.
LayoutLines_AsGiven(rawLines, numberOfRounds) == rawLines

\* Array(numberOfRounds).fill(rawLines[0]) for a single line and more than
\* one round, the lines as given otherwise.
LayoutLines(rawLines, numberOfRounds) ==
  IF Len(rawLines) = 1 /\ numberOfRounds > 1
  THEN [k \in 1..numberOfRounds |-> rawLines[1]]
  ELSE rawLines

\* undefined is the value [defined |-> FALSE].
Undefined == [defined |-> FALSE, rounds |-> <<>>]

Defined(rounds) ==
  IF rounds.threw THEN rounds
  ELSE Return([defined |-> TRUE, rounds |-> rounds.value])

LinesLayout(lines, blockSize, sBoxSize, numberOfRounds) ==
  IF Len(lines) # numberOfRounds
  THEN Throw("Provide one layout per round or a single line to reuse for every round")
  ELSE Defined(MapLines(lines, blockSize, sBoxSize))

\* parseRoundLayouts(text, blockSize, sBoxSize, numberOfRounds)
parseRoundLayouts(text, blockSize, sBoxSize, numberOfRounds) ==
  IF Trim(text) = <<>> THEN Return(Undefined)
  ELSE LinesLayout(LayoutLines(NonEmpty(Trimmed(SplitChar(Trim(text), "\n"))),
                               numberOfRounds),
                   blockSize, sBoxSize, numberOfRounds)

\* The config parseConfig hands to sanitizeConfig.
FormConfig(blockSize, sBoxSize, numberOfRounds, sBoxTable, pBoxTable, form, roundLayouts) ==
  [blockSize |-> blockSize,
   numberOfRounds |-> numberOfRounds,
   sBox |-> [size |-> sBoxSize, table |-> sBoxTable],
   pBox |-> pBoxTable,
   applyFinalPermutation |-> form.applyFinalPermutation,
   hasRounds |-> roundLayouts.defined,
   rounds |-> roundLayouts.rounds]

\* try { sanitizeConfig(baseConfig) } catch: the config, or its message as
\* the one error.
Sanitized(sanitized, errors) ==
  IF sanitized.threw
  THEN [config |-> Null, errors |-> Append(errors, sanitized.error)]
  ELSE [config |-> NotNull(sanitized.value), errors |-> <<>>]

\* if (errors.length > 0) return { config: null, errors }
AllOrNothing(baseConfig, errors) ==
  IF Len(errors) > 0 THEN [config |-> Null, errors |-> errors]
  ELSE Sanitized(sanitizeConfig(baseConfig), errors)

\* The end of parseConfig, once the three numbers are known: the checks of
\* the sizes, the all-or-nothing decision and sanitizeConfig.
ConfigDecision(blockSize, sBoxSize, numberOfRounds, sBoxTable, pBoxTable, form, roundLayouts, errors) ==
  AllOrNothing(
    FormConfig(blockSize, sBoxSize, numberOfRounds, sBoxTable, pBoxTable, form, roundLayouts),
    PushIf(pBoxTable.length # blockSize,
           PushIf(sBoxSize <= 0,
                  PushIf(blockSize <= 0, errors, "Block size must be at least 1 bit"),
                  "S-Box size must be at least 1 bit"),
           "Permutation must list " \o ToString(blockSize) \o " positions"))

\* try { parseNumberList(text) } catch: the table (empty after a throw) and
\* the errors.
TableOf(list, errors) ==
  [table |-> IF list.threw THEN NewArray(0) ELSE list.value,
   errors |-> IF list.threw THEN Append(errors, list.error) ELSE errors]

\* try { parseRoundLayouts(...) } catch, and the rest of parseConfig.
WithLayouts(form, blockSize, sBoxSize, numberOfRounds, sBoxTable, pBox, layouts) ==
  ConfigDecision(blockSize, sBoxSize, numberOfRounds, sBoxTable, pBox.table, form,
                 IF layouts.threw THEN Undefined ELSE layouts.value,
                 IF layouts.threw THEN Append(pBox.errors, layouts.error)
                 ELSE pBox.errors)

\* parseConfig from the P-box table on; the three numbers are null or known.
WithPBox(form, blockSize, sBoxSize, numberOfRounds, sBoxTable, pBox) ==
  IF blockSize.null \/ sBoxSize.null \/ numberOfRounds.null
  THEN [config |-> Null, errors |-> pBox.errors]
  ELSE WithLayouts(form, blockSize.value, sBoxSize.value, numberOfRounds.value,
                   sBoxTable, pBox,
                   parseRoundLayouts(form.roundLayoutText, blockSize.value,
                                     sBoxSize.value, numberOfRounds.value))

\* The message of the S-box table check.
SBoxTableMessage(sBoxSize) ==
  "S-Box table should contain " \o ToString(ShiftLeftOne(sBoxSize))
  \o " entries for " \o ToString(sBoxSize) \o "-bit input"

\* parseConfig from the S-box table check on.
WithSBox(form, blockSize, sBoxSize, numberOfRounds, sBox) ==
  WithPBox(form, blockSize, sBoxSize, numberOfRounds, sBox.table,
           TableOf(parseNumberList(form.pBoxTableText),
                   IF /\ ~sBoxSize.null
                      /\ sBox.table.length # 0
                      /\ sBox.table.length # ShiftLeftOne(sBoxSize.value)
                   THEN Append(sBox.errors, SBoxTableMessage(sBoxSize.value))
                   ELSE sBox.errors))

\* parseConfig once the three numbers are read.
WithRoundCount(form, blockSize, sBoxSize, numberOfRounds) ==
  WithSBox(form, blockSize.value, sBoxSize.value, numberOfRounds.value,
           TableOf(parseNumberList(form.sBoxTableText), numberOfRounds.errors))

WithSBoxSize(form, blockSize, sBoxSize) ==
  WithRoundCount(form, blockSize, sBoxSize,
                 parseIntegerField(form.numberOfRounds, "round count", sBoxSize.errors))

WithBlockSize(form, blockSize) ==
  WithSBoxSize(form, blockSize,
               parseIntegerField(form.sBoxSize, "S-Box size", blockSize.errors))

\* parseConfig(form)
parseConfig(form) ==
  WithBlockSize(form, parseIntegerField(form.blockSize, "block size", <<>>))

\* ------------------------------------------- routes/index: the trace parser

\* The bits 0..3 that are set in the nibble, lowest first.
SetBits(value) == SelectSeq(<<0, 1, 2, 3>>, LAMBDA i : (value \div (2 ^ i)) % 2 = 1)

\* bitsOfNibble(value) for a number; NaN is told apart by the caller.
bitsOfNibble(value) ==
  IF value < 0 \/ value > 15 THEN Throw("Nibble must be between 0 and 15")
  ELSE Return(SetBits(value))

\* Mutant of NibbleBits: the nibble index is added as it is.
NibbleBits_NoOffset(bits, nibbleIndex) == [k \in DOMAIN bits |-> bits[k] + nibbleIndex]

\* bitsOfNibble(value).map((bit) => bit + nibbleIndex * 4)
NibbleBits(bits, nibbleIndex) == [k \in DOMAIN bits |-> bits[k] + nibbleIndex * 4]

\* nibbles.forEach(...): highlightBits.push(...nibbleBits) for the first k
\* nibbles.
RECURSIVE HighlightBitsOf(_, _)
HighlightBitsOf(nibbles, k) ==
  IF k = 0 THEN <<>>
  ELSE HighlightBitsOf(nibbles, k - 1)
       \o NibbleBits(bitsOfNibble(nibbles[k]).value, k - 1)

\* nibbles.reverse()
Reversed(seq) == [k \in DOMAIN seq |-> seq[Len(seq) + 1 - k]]

\* chars.map((char) => char === '-' ? 0 : Number.parseInt(char, 16))
NibblesOf(chars) ==
  [k \in DOMAIN chars |-> IF chars[k] = "-" THEN Number(0) ELSE ParseInt(<<chars[k]>>, 16)]

\* Mutant of LineBlockSize: one bit for each character.
LineBlockSize_OneBit(nibbles) == Len(nibbles)

\* blockSize: nibbles.length * 4
LineBlockSize(nibbles) == Len(nibbles) * 4

\* parseStateLine once the characters are read as nibbles.
LineResult(nibbles, values) ==
  IF \E k \in DOMAIN nibbles : nibbles[k].nan
  THEN Throw("State line contains invalid characters.")
  ELSE IF \E k \in DOMAIN values : bitsOfNibble(values[k]).threw
  THEN Throw("Nibble must be between 0 and 15")
  ELSE Return([highlightBits |-> HighlightBitsOf(values, Len(values)),
               blockSize |-> LineBlockSize(nibbles)])

\* The nibble values in the order they are decoded; NaN is kept as -1.
NibbleValues(nibbles, reverse_) ==
  IF reverse_
  THEN Reversed([k \in DOMAIN nibbles |-> IF nibbles[k].nan THEN -1 ELSE nibbles[k].value])
  ELSE [k \in DOMAIN nibbles |-> IF nibbles[k].nan THEN -1 ELSE nibbles[k].value]

\* parseStateLine(line, reverse)
parseStateLine(line, reverse_) ==
  LineResult(NibblesOf(line), NibbleValues(NibblesOf(line), reverse_))

\* /^[0-9a-fA-FxX-]+$/.test(line)
IsStateLine(line) ==
  /\ line # <<>>
  /\ \A k \in DOMAIN line : IsDigit(line[k], 16) \/ line[k] \in {"x", "X", "-"}

\* dropColumn[column]: some line has x or X there.
DropColumn(trimmed) ==
  [column \in 1..Len(trimmed[1]) |->
     \E k \in DOMAIN trimmed : LowerChar(trimmed[k][column]) = "x"]

\* line.split('').filter((_, idx) => !dropColumn[idx]).join('')
FilterLine(line, kept) ==
  [n \in 1..Cardinality(kept) |->
     line[CHOOSE i \in kept : Cardinality({j \in kept : j < i}) = n - 1]]

\* Mutant of FilteredStates: each line loses only the columns it masks itself.
FilteredStates_PerLine(trimmed, dropColumn) ==
  [k \in DOMAIN trimmed |->
     FilterLine(trimmed[k], {i \in DOMAIN dropColumn : LowerChar(trimmed[k][i]) # "x"})]

\* trimmed.map((line) => line.split('').filter(...).join(''))
FilteredStates(trimmed, dropColumn) ==
  [k \in DOMAIN trimmed |->
     FilterLine(trimmed[k], {i \in DOMAIN dropColumn : ~dropColumn[i]})]

\* Mutant of NoColumnsLeft: the check is missing.
NoColumnsLeft_Unchecked(filteredStates) == FALSE

\* !filteredStates[0].length
NoColumnsLeft(filteredStates) == filteredStates[1] = <<>>

\* Math.min over the block sizes of the lines, from Infinity down.
MinBlockSize(lines) ==
  CHOOSE m \in {lines[k].blockSize : k \in DOMAIN lines} :
    \A k \in DOMAIN lines : m <= lines[k].blockSize

\* The loop over filteredStates: `lines` holds parseStateLine's results.
Highlights(lines) ==
  IF lines.threw THEN lines
  ELSE Return([highlights |-> [k \in DOMAIN lines.value |-> lines.value[k].highlightBits],
               blockSize |-> MinBlockSize(lines.value)])

ExtractFiltered(filteredStates, reverse_) ==
  IF NoColumnsLeft(filteredStates)
  THEN Throw("No columns remain after removing x columns.")
  ELSE Highlights(MapResults([k \in DOMAIN filteredStates |->
                                parseStateLine(filteredStates[k], reverse_)]))

ExtractTrimmed(trimmed, reverse_) ==
  IF Cardinality({Len(trimmed[k]) : k \in DOMAIN trimmed}) # 1
  THEN Throw("All state lines must have the same length.")
  ELSE IF ~\A k \in DOMAIN trimmed : IsStateLine(trimmed[k])
  THEN Throw("State lines must contain only 0-9, a-f, -, or x.")
  ELSE ExtractFiltered(FilteredStates(trimmed, DropColumn(trimmed)), reverse_)

\* extractHighlights(states, reverse)
extractHighlights(states_, reverse_) ==
  IF states_ = <<>> THEN Return([highlights |-> <<>>, blockSize |-> 0])
  ELSE ExtractTrimmed(Trimmed(states_), reverse_)

\* ------------------------------------------------ permutation engine calls

VARIABLES
  input,        \* the permutation array drawn as the call's argument
  permutation,  \* that array as the last call left it
  args,         \* the other arguments of the last call
  call,         \* the calls made so far, oldest first
  result        \* what the last call returned or threw

permVars == <<input, permutation, args, call, result>>

\* The visualizer page (routes/spn_visualizer) and its diagram (SPNDiagram).
VARIABLES
  phase,          \* how far the render of the page has come
  config,         \* parseConfig's config: sanitizeConfig's result
  pInverse,       \* useMemo: invertPermutation(config.pBox)
  stageData,      \* useMemo: buildStages(config)
  bitPositions,   \* useMemo: mapBitPositions(stageData)
  connections,    \* useMemo: buildConnections(stageData, bitPositions, {})
  highlightBits,  \* useState: the per-round active bits
  selectors       \* the highlight effect's buildHighlightSelectors(...)

netVars == <<phase, config, pInverse, stageData, bitPositions, connections,
             highlightBits, selectors>>

\* The visualizer page across renders: its form, parseConfig's result and
\* the highlight style sheet.
VARIABLES
  formState,              \* useState: the form fields, as typed
  edits,                  \* how many times a field was edited
  parsed,                 \* useMemo: parseConfig(formState)
  initializedFromSearch,  \* useState: a handoff message was handled
  styleSheet,             \* innerHTML of the highlight <style>: its rules
  cleanup                 \* the last highlight effect returned a cleanup

pageVars == <<formState, edits, parsed, initializedFromSearch, styleSheet, cleanup>>

\* The trace parser of the editor page (routes/index).
VARIABLES
  states,     \* the lines of a print-state block
  reverse,    \* the reverse-nibbles switch
  extracted   \* the results of the calls of extractHighlights(states, reverse)

traceVars == <<states, reverse, extracted>>

\* The editor page (routes/index) around a print-state block: `states` is
\* rawStatesRef.current and `reverse` is reverseHighlights.
VARIABLES
  editorHighlightBits,  \* useState: highlightBits of the editor page
  visualizerForm,       \* useState: the form handed to the visualizer
  blockSizeTouched,     \* useState: the block size was typed by hand
  recompute,            \* the recompute effect is due after this render
  status,               \* useState: the status line
  lastBlock             \* history: the lines of the last block that parsed

blockVars == <<editorHighlightBits, visualizerForm, blockSizeTouched, recompute,
               status, lastBlock>>

\* A call of parseNumberList.
VARIABLES
  listText,   \* the text given to parseNumberList
  listed      \* the results of the calls of parseNumberList(listText)

listVars == <<listText, listed>>

\* A call of buildSatArgs.
VARIABLES
  jsonPath,   \* the path given to buildSatArgs
  options,    \* the options given to buildSatArgs
  satArgs     \* the results of the calls of buildSatArgs(jsonPath, options)

satVars == <<jsonPath, options, satArgs>>

\* The server's run lock and the requests it is handling.
VARIABLES
  runInProgress,  \* the module variable of server/bonc
  requests        \* for each request: its kind, where its handler stands,
                  \* whether its release is set, how its run settled, the
                  \* status it was answered with, the steps its run took, and
                  \* whether the lock was held when it arrived and when it
                  \* called acquireRunLock

serverVars == <<runInProgress, requests>>

\* The terminal output read for print-state blocks.
VARIABLES
  stream,     \* the whole output of the PTY
  fed,        \* how many of its characters have arrived in chunks
  collector,  \* the PrintStateCollector
  completed   \* the arguments of the calls of onComplete, in order

ptyVars == <<stream, fed, collector, completed>>

restVars == <<satVars, serverVars, ptyVars>>

vars == <<permVars, netVars, pageVars, traceVars, blockVars, listVars, restVars>>

\* No permutation-engine call is under way.
PermIdle ==
  /\ input = IdentityArray(0)
  /\ permutation = IdentityArray(0)
  /\ args = [blockSize |-> 0]
  /\ call = <<>>
  /\ result = Return(IdentityArray(0))

\* The page has not rendered.
NetIdle ==
  /\ phase = "form"
  /\ config = <<>>
  /\ pInverse = <<>>
  /\ stageData = <<>>
  /\ bitPositions = <<>>
  /\ connections = <<>>
  /\ highlightBits = <<>>
  /\ selectors = <<>>

\* The form of a page nobody has typed into: every text field empty.
EmptyForm ==
  [blockSize |-> <<>>, sBoxSize |-> <<>>, numberOfRounds |-> <<>>,
   sBoxTableText |-> <<>>, pBoxTableText |-> <<>>,
   applyFinalPermutation |-> FALSE, roundLayoutText |-> <<>>]

\* The visualizer page is not open.
PageIdle ==
  /\ formState = EmptyForm
  /\ edits = 0
  /\ parsed = [config |-> Null, errors |-> <<>>]
  /\ initializedFromSearch = FALSE
  /\ styleSheet = <<>>
  /\ cleanup = FALSE

\* No trace is being parsed.
TraceIdle ==
  /\ states = <<>>
  /\ reverse = FALSE
  /\ extracted = <<>>

\* The editor page has seen no print-state block.
BlockIdle ==
  /\ editorHighlightBits = <<>>
  /\ visualizerForm = EmptyForm
  /\ blockSizeTouched = FALSE
  /\ recompute = FALSE
  /\ status = ""
  /\ lastBlock = <<>>

\* parseNumberList is not being called.
ListIdle ==
  /\ listText = <<>>
  /\ listed = <<>>

\* buildSatArgs is not being called.
SatIdle ==
  /\ jsonPath = <<>>
  /\ options = <<>>
  /\ satArgs = <<>>

\* A request that has not arrived.
NoRequest ==
  [kind |-> "none", pc |-> "idle", release |-> FALSE, outcome |-> "", status |-> 0,
   commands |-> <<>>, steps |-> <<>>, arrivedLocked |-> FALSE, triedLocked |-> FALSE]

\* The server has received no request.
ServerIdle ==
  /\ runInProgress = FALSE
  /\ requests = [r \in 1..MaxRequests |-> NoRequest]

\* createCollector()
createCollector == [collecting |-> FALSE, buffer |-> <<>>, lines |-> <<>>]

\* The terminal has had no output.
PtyIdle ==
  /\ stream = <<>>
  /\ fed = 0
  /\ collector = createCollector
  /\ completed = <<>>

\* The server and the terminal are at rest.
RestIdle == SatIdle /\ ServerIdle /\ PtyIdle

NoArgs == [blockSize |-> 0]

\* Every integer array of length 0..MaxLen with entries in -1..MaxLen.
PermutationInputs ==
  UNION {DenseArrays(-1..MaxLen, n) : n \in 0..MaxLen}

\* a is a bijection onto [0, n), held in a dense array of length n.
IsBijection(a, n) ==
  /\ a.length = n
  /\ IsDense(a)
  /\ {a.at[i] : i \in DOMAIN a.at} = 0..(n - 1)

\* Every bijection over [0, n) for n in 0..MaxBlock.
BijectionInputs ==
  UNION {{a \in DenseArrays(0..(n - 1), n) : IsBijection(a, n)} : n \in 0..MaxBlock}

\* The arrays applyPermutation is given as `values`: the identity bit order
\* and every array of zeros and ones.
ValueInputs(n) == DenseArrays({0, 1}, n) \cup {IdentityArray(n)}

InitPerm ==
  /\ input \in PermutationInputs \cup BijectionInputs
  /\ permutation = input
  /\ args = NoArgs
  /\ call = <<>>
  /\ result = Return(input)
  /\ NetIdle
  /\ PageIdle
  /\ TraceIdle
  /\ BlockIdle
  /\ ListIdle
  /\ RestIdle

\* normalizePermutation(permutation, blockSize) for any block size
NormalizePermutation ==
  /\ call = <<>>
  /\ \E blockSize \in 0..(permutation.length + 1) :
       LET r == normalizePermutation(permutation, blockSize)
       IN /\ args' = [blockSize |-> blockSize]
          /\ permutation' = r.permutation
          /\ result' = IF r.threw THEN Throw(r.error) ELSE Return(r.value)
  /\ call' = <<"normalizePermutation">>
  /\ UNCHANGED <<input, netVars, pageVars, traceVars, blockVars, listVars, restVars>>

\* invertPermutation(permutation), and invertPermutation of what it returned
InvertPermutation ==
  /\ call \in {<<>>, <<"invertPermutation">>}
  /\ ~result.threw
  /\ result' = invertPermutation(result.value)
  /\ call' = Append(call, "invertPermutation")
  /\ UNCHANGED <<input, permutation, args, netVars, pageVars, traceVars, blockVars, listVars, restVars>>

\* applyPermutation(values, permutation); utils/spn only calls it with a
\* permutation that normalizePermutation returned.
ApplyPermutation ==
  /\ call = <<>>
  /\ ~normalizePermutation(permutation, permutation.length).threw
  /\ ~HasOneBased(permutation, permutation.length)
  /\ \E values \in ValueInputs(permutation.length) :
       /\ args' = [values |-> values]
       /\ result' = Return(applyPermutation(values, permutation))
  /\ call' = <<"applyPermutation">>
  /\ UNCHANGED <<input, permutation, netVars, pageVars, traceVars, blockVars, listVars, restVars>>

\* applyPermutation(result, invertPermutation(permutation))
ApplyInverse ==
  /\ call = <<"applyPermutation">>
  /\ ~invertPermutation(permutation).threw
  /\ result' = Return(applyPermutation(result.value, invertPermutation(permutation).value))
  /\ call' = Append(call, "applyInverse")
  /\ UNCHANGED <<input, permutation, args, netVars, pageVars, traceVars, blockVars, listVars, restVars>>

\* generateSequentialRounds(blockSize, sBoxSize, numberOfRounds, permutation)
\* with the normalized permutation, as sanitizeConfig calls it
GenerateSequentialRounds ==
  /\ call = <<>>
  /\ ~normalizePermutation(permutation, permutation.length).threw
  /\ ~HasOneBased(permutation, permutation.length)
  /\ \E sBoxSize \in 0..(permutation.length + 1),
        numberOfRounds \in (-1)..(MaxRounds + 1) :
       /\ args' = [blockSize |-> permutation.length, sBoxSize |-> sBoxSize,
                   numberOfRounds |-> numberOfRounds]
       /\ result' = generateSequentialRounds(permutation.length, sBoxSize,
                                             numberOfRounds, permutation)
  /\ call' = <<"generateSequentialRounds">>
  /\ UNCHANGED <<input, permutation, netVars, pageVars, traceVars, blockVars, listVars, restVars>>

NextPerm ==
  \/ NormalizePermutation
  \/ InvertPermutation
  \/ ApplyPermutation
  \/ ApplyInverse
  \/ GenerateSequentialRounds

SpecPerm == InitPerm /\ [][NextPerm]_vars

\* ------------------------------------------- claims on the permutation engine

\* The entries of a, each decremented by d.
Shifted(a, d) == [length |-> a.length, at |-> [i \in DOMAIN a.at |-> a.at[i] - d]]

\* Where the bit that starts at position b is after the permutation p has been
\* applied r times, destination-indexed.
RECURSIVE PositionAfter(_, _, _)
PositionAfter(p, b, r) == IF r = 0 THEN b ELSE p.at[PositionAfter(p, b, r - 1)]

\* C7: for a bijection p, inverting twice gives p back, and applying p to an
\* array and then the inverse of p to the result restores the array.
C7_InverseRoundTrip ==
  /\ (call = <<"invertPermutation", "invertPermutation">>
        /\ IsBijection(input, input.length))
       => (~result.threw /\ result.value = input)
  /\ (call = <<"applyPermutation", "applyInverse">>
        /\ IsBijection(input, input.length))
       => (~result.threw /\ result.value = args.values)

\* A three-or-more-bit array went through a permutation that is not its own
\* inverse and back.
C7_Witness ==
  /\ call = <<"applyPermutation", "applyInverse">>
  /\ input.length >= 3
  /\ invertPermutation(input).value # input
  /\ args.values = IdentityArray(input.length)
  /\ result.value = args.values

\* C8: invertPermutation throws for every integer array that is not a
\* bijection onto [0, n), and for a bijection returns the array inv of length
\* n with inv[perm[i]] = i.
C8_InvertTotal ==
  call = <<"invertPermutation">> =>
    LET n == input.length
    IN /\ result.threw <=> ~IsBijection(input, n)
       /\ result.threw => result.error = "not a bijection"
       /\ ~result.threw =>
            /\ result.value.length = n
            /\ IsDense(result.value)
            /\ \A i \in 0..(n - 1) : result.value.at[input.at[i]] = i

\* invertPermutation rejected an array with an entry at or above its length
\* and one with a negative entry or a repeated one.
C8_Witness ==
  /\ call = <<"invertPermutation">>
  /\ result.threw
  /\ \E i \in DOMAIN input.at : input.at[i] >= input.length
  /\ \E i \in DOMAIN input.at : input.at[i] < 0

\* C9: normalizePermutation throws on a length mismatch; otherwise it
\* decrements every entry when some entry equals blockSize, succeeds exactly
\* when the adjusted entries are a bijection onto [0, blockSize), returns them,
\* and leaves its argument as it was; a 1-based permutation and its 0-based
\* counterpart normalize to the same array.
C9_Normalize ==
  call = <<"normalizePermutation">> =>
    LET blockSize == args.blockSize
        oneBased == \E i \in DOMAIN input.at : input.at[i] = blockSize
        adjusted == Shifted(input, IF oneBased THEN 1 ELSE 0)
        counterpart == normalizePermutation(Shifted(input, 1), blockSize)
    IN /\ input.length # blockSize => result.threw
       /\ input.length = blockSize =>
            /\ ~result.threw <=> IsBijection(adjusted, blockSize)
            /\ ~result.threw => result.value = adjusted
       /\ permutation = input
       /\ (oneBased /\ ~result.threw) =>
            (~counterpart.threw /\ counterpart.value = result.value)

\* A 1-based permutation of three or more entries was normalized.
C9_Witness ==
  /\ call = <<"normalizePermutation">>
  /\ ~result.threw
  /\ input.length >= 3
  /\ \E i \in DOMAIN input.at : input.at[i] = args.blockSize
  /\ result.value # input

\* C10: generateSequentialRounds throws when blockSize is not a multiple of
\* sBoxSize; otherwise it returns numberOfRounds rounds (none for a negative
\* count), round r made of blockSize/sBoxSize S-boxes named S<r+1>.<k+1>, the
\* k-th holding the k-th chunk of sBoxSize bits of the identity order after r
\* applications of the permutation, so that each round's S-boxes partition
\* the bits.
C10_SequentialRounds ==
  call = <<"generateSequentialRounds">> =>
    LET blockSize == args.blockSize
        sBoxSize == args.sBoxSize
        divisible == sBoxSize > 0 /\ blockSize % sBoxSize = 0
    IN /\ ~divisible => result.threw
       /\ divisible =>
            /\ ~result.threw
            /\ args.numberOfRounds >= 0 => Len(result.value) = args.numberOfRounds
            /\ args.numberOfRounds < 0 => Len(result.value) = 0
            /\ \A r \in 0..(args.numberOfRounds - 1) :
                 LET sBoxes == result.value[r + 1].sBoxes
                 IN /\ Len(sBoxes) = blockSize \div sBoxSize
                    /\ \A k \in 0..(Len(sBoxes) - 1) :
                         /\ sBoxes[k + 1].id
                              = "S" \o ToString(r + 1) \o "." \o ToString(k + 1)
                         /\ sBoxes[k + 1].bitIndexes.length = sBoxSize
                         /\ IsDense(sBoxes[k + 1].bitIndexes)
                         /\ \A j \in 0..(sBoxSize - 1) :
                              PositionAfter(input, sBoxes[k + 1].bitIndexes.at[j], r)
                                = k * sBoxSize + j
                    /\ {sBoxes[k].bitIndexes.at[j] :
                          k \in 1..Len(sBoxes), j \in 0..(sBoxSize - 1)}
                         = 0..(blockSize - 1)

\* Three rounds of two 2-bit S-boxes were generated for a permutation that is
\* not its own inverse.
C10_Witness ==
  /\ call = <<"generateSequentialRounds">>
  /\ ~result.threw
  /\ args.blockSize = 4
  /\ args.sBoxSize = 2
  /\ args.numberOfRounds = 3
  /\ invertPermutation(input).value # input
  /\ result.value[3].sBoxes[1].bitIndexes # result.value[1].sBoxes[1].bitIndexes

\* ------------------------------------------------------ one render of the page

\* The config parseConfig hands to sanitizeConfig (no round-layout text).
BaseConfig(blockSize, sBoxSize, numberOfRounds, pBox, applyFinalPermutation) ==
  [blockSize |-> blockSize,
   numberOfRounds |-> numberOfRounds,
   sBox |-> [size |-> sBoxSize, table |-> IdentityArray(2 ^ sBoxSize)],
   pBox |-> pBox,
   applyFinalPermutation |-> applyFinalPermutation,
   hasRounds |-> FALSE,
   rounds |-> <<>>]

\* The layout of the end-to-end example: 4 bits, P-box [1,0,3,2], 2 rounds.
ExampleConfig ==
  BaseConfig(4, 4, 2, [length |-> 4, at |-> (0 :> 1) @@ (1 :> 0) @@ (2 :> 3) @@ (3 :> 2)],
             FALSE)

\* The active-bit lists of a round: none, one bit from -1..blockSize, or all
\* of -1..blockSize.
BitLists(blockSize) ==
  {<<>>} \cup {<<b>> : b \in (-1)..blockSize}
  \cup {[k \in 1..(blockSize + 2) |-> k - 2]}

\* The highlight traces of up to MaxTrace rounds: each round is empty or holds
\* the trace's active-bit list.
HighlightInputs(blockSize) ==
  UNION {{[r \in 1..n |-> IF r \in active THEN bits ELSE <<>>] :
            active \in SUBSET (1..n), bits \in BitLists(blockSize)} : n \in 0..MaxTrace}

InitNet == NetIdle /\ PermIdle /\ PageIdle /\ TraceIdle /\ BlockIdle /\ ListIdle /\ RestIdle

\* parseConfig's last step: sanitizeConfig(baseConfig), the config kept or the
\* error reported.
Sanitize(baseConfig) ==
  /\ phase = "form"
  /\ LET sanitized == sanitizeConfig(baseConfig)
     IN IF sanitized.threw
        THEN /\ phase' = "invalid"
             /\ config' = config
        ELSE /\ phase' = "config"
             /\ config' = sanitized.value
  /\ UNCHANGED <<pInverse, stageData, bitPositions, connections, highlightBits,
                 selectors, permVars, pageVars, traceVars, blockVars, listVars, restVars>>

\* Any base config of up to MaxWidth bits: any P-box of blockSize entries in
\* -1..blockSize+1, any S-box size, -1..MaxRounds rounds, either flag.
SanitizeConfig ==
  /\ phase = "form"
  /\ \E blockSize \in 1..MaxWidth :
       \E sBoxSize \in 1..MaxWidth, numberOfRounds \in (-1)..MaxRounds,
          pBox \in DenseArrays((-1)..(blockSize + 1), blockSize), final \in BOOLEAN :
         Sanitize(BaseConfig(blockSize, sBoxSize, numberOfRounds, pBox, final))

\* The base config of the end-to-end example.
SanitizeExample == Sanitize(ExampleConfig)

\* pInverse = invertPermutation(config.pBox)
InvertPBox ==
  /\ phase = "config"
  /\ LET inverse == invertPermutation(config.pBox)
     IN IF inverse.threw
        THEN /\ phase' = "crashed"
             /\ pInverse' = pInverse
        ELSE /\ phase' = "inverse"
             /\ pInverse' = inverse.value
  /\ UNCHANGED <<config, stageData, bitPositions, connections, highlightBits,
                 selectors, permVars, pageVars, traceVars, blockVars, listVars, restVars>>

\* stageData = buildStages(config)
BuildStages ==
  /\ phase = "inverse"
  /\ stageData' = buildStages(config)
  /\ phase' = "stages"
  /\ UNCHANGED <<config, pInverse, bitPositions, connections, highlightBits,
                 selectors, permVars, pageVars, traceVars, blockVars, listVars, restVars>>

\* bitPositions = mapBitPositions(stageData)
MapBitPositions ==
  /\ phase = "stages"
  /\ bitPositions' = mapBitPositions(stageData)
  /\ phase' = "positions"
  /\ UNCHANGED <<config, pInverse, stageData, connections, highlightBits,
                 selectors, permVars, pageVars, traceVars, blockVars, listVars, restVars>>

\* connections = buildConnections(stageData, bitPositions, {})
BuildConnections ==
  /\ phase = "positions"
  /\ connections' = buildConnections(stageData, bitPositions)
  /\ phase' = "connections"
  /\ UNCHANGED <<config, pInverse, stageData, bitPositions, highlightBits,
                 selectors, permVars, pageVars, traceVars, blockVars, listVars, restVars>>

\* The highlight effect for the page's highlightBits: no rule without
\* highlights, else one rule per selector of buildHighlightSelectors.
HighlightEffect ==
  /\ phase = "connections"
  /\ \E highlights \in HighlightInputs(config.blockSize) :
       /\ highlightBits' = highlights
       /\ selectors' = IF Len(highlights) = 0 THEN <<>>
                       ELSE buildHighlightSelectors(highlights, config, pInverse)
  /\ phase' = "highlighted"
  /\ UNCHANGED <<config, pInverse, stageData, bitPositions, connections, permVars,
                 pageVars, traceVars, blockVars, listVars, restVars>>

NextNet ==
  \/ SanitizeConfig
  \/ SanitizeExample
  \/ InvertPBox
  \/ BuildStages
  \/ MapBitPositions
  \/ BuildConnections
  \/ HighlightEffect

SpecNet == InitNet /\ [][NextNet]_vars

\* ----------------------------------------------- claims on the network model

\* The render has built the stages / the connections / the highlight rules.
HasStages == phase \in {"stages", "positions", "connections", "highlighted"}
HasConnections == phase \in {"connections", "highlighted"}
Highlighted == phase = "highlighted"

\* The physical position a y coordinate stands for.
PositionOf(y) == (y - marginY) \div bitSpacing

\* The connections between two stages that leave the source at position i.
Wires(fromId, toId, i) ==
  {connections[k] : k \in {j \in DOMAIN connections :
       /\ connections[j].fromStage = fromId
       /\ connections[j].toStage = toId
       /\ connections[j].path.y1 = marginY + i * bitSpacing}}

\* The ids of the stages of a type and round.
StageIds(type, roundIndex) ==
  {stageData[k].id : k \in {j \in DOMAIN stageData :
       /\ stageData[j].type = type
       /\ (type \in {"sbox", "permutation"} => stageData[j].roundIndex = roundIndex)}}

\* The wires from a stage of one type and round to a stage of another, at
\* source position i.
WiresBetween(fromType, fromRound, toType, toRound, i) ==
  UNION {Wires(f, t, i) : f \in StageIds(fromType, fromRound),
                          t \in StageIds(toType, toRound)}

\* The in-range bits of round r of the trace.
ActiveBits(r) ==
  {highlightBits[r + 1][k] : k \in DOMAIN highlightBits[r + 1]}
    \cap (0..(config.blockSize - 1))

\* The rounds of the trace the correlator walks.
WalkedRounds ==
  {r \in 0..(Len(highlightBits) - 1) : r < config.numberOfRounds}

\* The elements of a sequence.
Range(seq) == {seq[k] : k \in DOMAIN seq}

\* C1: every stage of an accepted layout carries a permutation of
\* {0..blockSize-1}: blockSize entries, none missing, undefined or repeated.
C1_StageBitsArePermutations ==
  HasStages =>
    \A k \in DOMAIN stageData :
      /\ stageData[k].bits.length = config.blockSize
      /\ IsDense(stageData[k].bits)
      /\ {stageData[k].bits.at[i] : i \in DOMAIN stageData[k].bits.at}
           = 0..(config.blockSize - 1)

\* Stages were built for two or more rounds with a final permutation that is
\* not its own inverse, and the output order differs from the input order.
C1_Witness ==
  /\ phase = "stages"
  /\ config.blockSize >= 3
  /\ config.numberOfRounds >= 2
  /\ config.applyFinalPermutation
  /\ pInverse # config.pBox
  /\ stageData[Len(stageData)].bits # stageData[1].bits

\* C2: the stages are input, then per round a substitution stage with the
\* order unchanged and, iff applyFinalPermutation or the round is not the
\* last, a permutation stage with next[pBox[i]] = prev[i], then output with the
\* final order; the 4-bit example gives the five stages input, substitution 0,
\* permutation 0, substitution 1, output, substitution 1 carrying [1,0,3,2].
C2_StageOrder ==
  HasStages =>
    LET n == IF config.numberOfRounds > 0 THEN config.numberOfRounds ELSE 0
        permuted(r) == config.applyFinalPermutation \/ r < n - 1
        perms == Cardinality({r \in 0..(n - 1) : permuted(r)})
        sboxAt(r) == 2 + 2 * r
    IN /\ Len(stageData) = 2 + n + perms
       /\ stageData[1].type = "input"
       /\ stageData[1].bits = IdentityArray(config.blockSize)
       /\ stageData[Len(stageData)].type = "output"
       /\ stageData[Len(stageData)].bits = stageData[Len(stageData) - 1].bits
       /\ \A r \in 0..(n - 1) :
            /\ stageData[sboxAt(r)].type = "sbox"
            /\ stageData[sboxAt(r)].roundIndex = r
            /\ stageData[sboxAt(r)].bits = stageData[sboxAt(r) - 1].bits
            /\ permuted(r) =>
                 /\ stageData[sboxAt(r) + 1].type = "permutation"
                 /\ stageData[sboxAt(r) + 1].roundIndex = r
                 /\ \A i \in 0..(config.blockSize - 1) :
                      stageData[sboxAt(r) + 1].bits.at[config.pBox.at[i]]
                        = stageData[sboxAt(r)].bits.at[i]
            /\ ~permuted(r) => stageData[sboxAt(r) + 1].type = "output"
       /\ (config.blockSize = ExampleConfig.blockSize
             /\ config.pBox = ExampleConfig.pBox
             /\ config.numberOfRounds = ExampleConfig.numberOfRounds
             /\ ~config.applyFinalPermutation)
            => /\ [k \in DOMAIN stageData |-> stageData[k].id]
                    = <<"input", "round-0-sbox", "round-0-perm", "round-1-sbox", "output">>
               /\ stageData[4].bits = ExampleConfig.pBox

\* The stages of the 4-bit, 2-round example without a final permutation.
C2_Witness ==
  /\ phase = "stages"
  /\ config.blockSize = 4
  /\ config.pBox = ExampleConfig.pBox
  /\ config.numberOfRounds = 2
  /\ ~config.applyFinalPermutation
  /\ Len(stageData) = 5
  /\ stageData[3].type = "permutation"
  /\ stageData[3].bits # stageData[2].bits

\* C3: for each pair of adjacent stages and each position i there is exactly
\* one connection, its id '<from>-><to>#i' with i the position in the source
\* stage's order (not the bit there); the ids are pairwise distinct and there
\* are (stages - 1) x blockSize connections.
C3_ConnectionKeys ==
  HasConnections =>
    /\ Len(connections) = (Len(stageData) - 1) * config.blockSize
    /\ \A a, b \in DOMAIN connections :
         connections[a].id = connections[b].id => a = b
    /\ \A k \in 1..(Len(stageData) - 1) :
         \A i \in 0..(config.blockSize - 1) :
           LET id == stageData[k].id \o "->" \o stageData[k + 1].id
                       \o "#" \o ToString(i)
               named == {j \in DOMAIN connections : connections[j].id = id}
           IN /\ Cardinality(named) = 1
              /\ \A j \in named :
                   /\ connections[j].fromStage = stageData[k].id
                   /\ connections[j].toStage = stageData[k + 1].id
                   /\ connections[j].path.y1 = marginY + i * bitSpacing
                   /\ connections[j].bit = stageData[k].bits.at[i]

\* Connections were built across a permutation stage, one of them carrying a
\* bit other than its position index.
C3_Witness ==
  /\ phase = "connections"
  /\ config.blockSize >= 3
  /\ Len(stageData) >= 4
  /\ \E j \in DOMAIN connections :
       /\ connections[j].bit # PositionOf(connections[j].path.y1)
       /\ connections[j].path.y2 # connections[j].path.y1

\* C4: the selectors emitted are exactly those of, for round 0 and each
\* in-range active bit b, the wire input -> substitution 0 at index b, and
\* for each walked round r > 0 and in-range active bit b, the wires
\* permutation r-1 -> substitution r at index b and substitution r-1 ->
\* permutation r-1 at index inversePermutation[b]; nothing else is emitted.
C4_HighlightKeys ==
  Highlighted =>
    LET first == {PathSelector(w) :
                    w \in UNION {WiresBetween("input", 0, "sbox", 0, b) :
                                   b \in IF 0 \in WalkedRounds THEN ActiveBits(0) ELSE {}}}
        arriving(r) == {PathSelector(w) :
                          w \in UNION {WiresBetween("permutation", r - 1, "sbox", r, b) :
                                         b \in ActiveBits(r)}}
        feeding(r) == {PathSelector(w) :
                         w \in UNION {WiresBetween("sbox", r - 1, "permutation", r - 1,
                                                   pInverse.at[b]) :
                                        b \in ActiveBits(r)}}
        later == WalkedRounds \ {0}
    IN /\ Range(selectors)
            = first \cup UNION {arriving(r) \cup feeding(r) : r \in later}
       /\ \A r \in later :
            /\ Cardinality(arriving(r)) = Cardinality(ActiveBits(r))
            /\ Cardinality(feeding(r)) = Cardinality(ActiveBits(r))
            /\ arriving(r) \cap feeding(r) = {}
       /\ Cardinality(first) = Cardinality(IF 0 \in WalkedRounds THEN ActiveBits(0) ELSE {})
       /\ Len(selectors) = Cardinality(Range(selectors))

\* A trace with in-range and out-of-range bits in rounds 0 and 1 was
\* correlated, a bit of round 1 being fed from another position.
C4_Witness ==
  /\ Highlighted
  /\ config.numberOfRounds >= 2
  /\ Len(highlightBits) >= 2
  /\ Len(highlightBits[1]) > Cardinality(ActiveBits(0))
  /\ Cardinality(ActiveBits(0)) >= 2
  /\ \E b \in ActiveBits(1) : pInverse.at[b] # b
  /\ Len(selectors) = Cardinality(ActiveBits(0)) + 2 * Cardinality(ActiveBits(1))

\* C5: for a walked round r > 0 and an in-range active bit b, the highlighted
\* wire substitution r-1 -> permutation r-1 leaves the position that the P-box
\* sends to b and ends at position b of permutation stage r-1, where the
\* highlighted wire permutation r-1 -> substitution r starts, carrying the
\* same bit to position b of substitution stage r.
C5_HighlightPath ==
  Highlighted =>
    \A r \in WalkedRounds \ {0} :
      \A b \in ActiveBits(r) :
        \E feed \in UNION {WiresBetween("sbox", r - 1, "permutation", r - 1, i) :
                             i \in 0..(config.blockSize - 1)} :
          \E arrive \in WiresBetween("permutation", r - 1, "sbox", r, b) :
            /\ PathSelector(feed) \in Range(selectors)
            /\ PathSelector(arrive) \in Range(selectors)
            /\ config.pBox.at[PositionOf(feed.path.y1)] = b
            /\ PositionOf(feed.path.y2) = b
            /\ PositionOf(arrive.path.y1) = b
            /\ PositionOf(arrive.path.y2) = b
            /\ feed.bit = arrive.bit

\* A bit of round 1 was traced back through a permutation that is not its own
\* inverse, to a position other than its own.
C5_Witness ==
  /\ Highlighted
  /\ pInverse # config.pBox
  /\ Len(highlightBits) >= 2
  /\ 1 \in WalkedRounds
  /\ \E b \in ActiveBits(1) :
       /\ pInverse.at[b] # b
       /\ pInverse.at[b] # config.pBox.at[b]
  /\ Len(selectors) >= 2

\* C6: every selector emitted names a connection of the model built from the
\* same layout, whatever the trace: out-of-range bits and rounds at or beyond
\* numberOfRounds give no selector, and none names a stage that was not built.
C6_HighlightKeysExist ==
  Highlighted =>
    /\ \A k \in DOMAIN selectors :
         \E j \in DOMAIN connections : PathSelector(connections[j]) = selectors[k]
    /\ (\A r \in WalkedRounds : ActiveBits(r) = {}) => selectors = <<>>

\* A trace longer than the layout has rounds, with out-of-range bits, was
\* correlated against a layout without a final permutation.
C6_Witness ==
  /\ Highlighted
  /\ ~config.applyFinalPermutation
  /\ config.numberOfRounds >= 1
  /\ Len(highlightBits) > config.numberOfRounds
  /\ Len(highlightBits[Len(highlightBits)]) > 1
  /\ Len(highlightBits[1]) > Cardinality(ActiveBits(0))
  /\ selectors # <<>>

\* ---------------------------------------------------- the form being edited

\* The decimal text of a number from 0 on.
RECURSIVE DecimalText(_)
DecimalText(n) ==
  IF n < 10 THEN <<Digits[n + 1]>>
  ELSE DecimalText(n \div 10) \o <<Digits[(n % 10) + 1]>>

\* The text "0, 1, ..., n-1".
RECURSIVE IdentityText(_)
IdentityText(n) ==
  IF n = 1 THEN DecimalText(0)
  ELSE IdentityText(n - 1) \o <<",", " ">> \o DecimalText(n - 1)

\* A two-bit layout: one-bit S-boxes, P-box [1,0], two rounds.
TwoBitForm ==
  [blockSize |-> <<"2">>, sBoxSize |-> <<"1">>, numberOfRounds |-> <<"2">>,
   sBoxTableText |-> <<"0", ",", " ", "1">>,
   pBoxTableText |-> <<"1", ",", " ", "0">>,
   applyFinalPermutation |-> FALSE, roundLayoutText |-> <<>>]

\* The four-bit layout of the end-to-end example, with two-bit S-boxes.
ExampleForm ==
  [blockSize |-> <<"4">>, sBoxSize |-> <<"2">>, numberOfRounds |-> <<"2">>,
   sBoxTableText |-> <<"1", " ", "0", " ", "3", " ", "2">>,
   pBoxTableText |-> <<"1", ",", "0", ",", "3", ",", "2">>,
   applyFinalPermutation |-> FALSE, roundLayoutText |-> <<>>]

\* A 32-bit layout whose single S-box is 32 bits wide, with a one-entry table.
WideForm ==
  [blockSize |-> <<"3", "2">>, sBoxSize |-> <<"3", "2">>, numberOfRounds |-> <<"1">>,
   sBoxTableText |-> <<"0">>,
   pBoxTableText |-> IdentityText(32),
   applyFinalPermutation |-> FALSE, roundLayoutText |-> <<>>]

\* The forms a page starts from (the handoff's config).
BaseForms == {TwoBitForm, ExampleForm, WideForm}

\* What is typed into a number field.
BlockSizeTexts == {<<>>, <<"q">>, <<"0">>, <<"2">>, <<"4">>}
SBoxSizeTexts == {<<>>, <<"-", "1">>, <<"0">>, <<"1">>, <<"2">>}
RoundCountTexts == {<<" ">>, <<"-", "1">>, <<"0">>, <<"1">>}

\* What is typed into the S-box table: nothing, "0, 1", "1 0 3 2", "0, zz", "7".
SBoxTableTexts ==
  {<<>>, <<"0", ",", " ", "1">>, <<"1", " ", "0", " ", "3", " ", "2">>,
   <<"0", ",", " ", "z", "z">>, <<"7">>}

\* What is typed into the P-box table: nothing, "0, 1", "1 2", "0 0", "0, q",
\* "1,0,3,2", "0 1 2".
PBoxTableTexts ==
  {<<>>, <<"0", ",", " ", "1">>, <<"1", " ", "2">>, <<"0", " ", "0">>,
   <<"0", ",", " ", "q">>, <<"1", ",", "0", ",", "3", ",", "2">>,
   <<"0", " ", "1", " ", "2">>}

\* What is typed into the round layout: nothing, "0 | 1", "1 0", "A: 0 | 1",
\* "0 | 0", "0 | 7", two lines "0 1" and "1 0", "A:", "0 1 | 2 3", "0 | q",
\* three lines "0|1".
RoundLayoutTexts ==
  {<<>>, <<"0", " ", "|", " ", "1">>, <<"1", " ", "0">>,
   <<"A", ":", " ", "0", " ", "|", " ", "1">>,
   <<"0", " ", "|", " ", "0">>, <<"0", " ", "|", " ", "7">>,
   <<"0", " ", "1", "\n", "1", " ", "0">>, <<"A", ":">>,
   <<"0", " ", "1", " ", "|", " ", "2", " ", "3">>,
   <<"0", " ", "|", " ", "q">>,
   <<"0", "|", "1", "\n", "0", "|", "1", "\n", "0", "|", "1">>}

\* The forms one edit away: ConfigForm's onChange replaces one field.
EditsOf(form) ==
  {[form EXCEPT !.blockSize = t] : t \in BlockSizeTexts}
  \cup {[form EXCEPT !.sBoxSize = t] : t \in SBoxSizeTexts}
  \cup {[form EXCEPT !.numberOfRounds = t] : t \in RoundCountTexts}
  \cup {[form EXCEPT !.sBoxTableText = t] : t \in SBoxTableTexts}
  \cup {[form EXCEPT !.pBoxTableText = t] : t \in PBoxTableTexts}
  \cup {[form EXCEPT !.roundLayoutText = t] : t \in RoundLayoutTexts}
  \cup {[form EXCEPT !.applyFinalPermutation = ~form.applyFinalPermutation]}

\* The page opens on a base form and renders: parseConfig(formState).
InitForm ==
  /\ formState \in BaseForms
  /\ edits = 0
  /\ parsed = parseConfig(formState)
  /\ initializedFromSearch = FALSE
  /\ styleSheet = <<>>
  /\ cleanup = FALSE
  /\ NetIdle
  /\ PermIdle
  /\ TraceIdle
  /\ BlockIdle
  /\ ListIdle
  /\ RestIdle

\* onChange={setFormState} and the render that follows.
ChangeForm ==
  /\ edits < MaxEdits
  /\ \E form \in EditsOf(formState) \ {formState} :
       /\ formState' = form
       /\ parsed' = parseConfig(form)
  /\ edits' = edits + 1
  /\ UNCHANGED <<initializedFromSearch, styleSheet, cleanup, netVars, permVars, traceVars, blockVars, listVars, restVars>>

NextForm == ChangeForm

SpecForm == InitForm /\ [][NextForm]_vars

\* ------------------------------------------------- claims on the validator

Accepted == ~parsed.config.null
Layout == parsed.config.value

\* The table has exactly 2^size entries (sizes from 31 on need more entries
\* than a table here can hold).
TableFits(length, size) == size >= 0 /\ size < 31 /\ length = 2 ^ size

\* The number of non-empty lines of the round-layout text.
LayoutLineCount(form) ==
  Len(NonEmpty(Trimmed(SplitChar(Trim(form.roundLayoutText), "\n"))))

\* The message of a call that threw, if it did.
ThrownBy(attempt) == IF attempt.threw THEN {attempt.error} ELSE {}

\* The problems that need the numbers b (block size), s (S-box size) and n
\* (round count), each null or known, and the two tables as read.
\* The S-box table counts here when it is not empty and the S-box is under 31
\* bits; the empty table and the wider S-box are the subject of C13.
SizeProblems(form, b, s, n, sList, pList) ==
  (IF /\ ~s.null /\ ~sList.threw
      /\ sList.value.length # 0
      /\ s.value \in 0..30
      /\ ~TableFits(sList.value.length, s.value)
   THEN {SBoxTableMessage(s.value)} ELSE {})
  \cup (IF ~b.null /\ ~pList.threw /\ pList.value.length # b.value
        THEN {"Permutation must list " \o ToString(b.value) \o " positions"}
        ELSE {})
  \cup (IF ~b.null /\ b.value <= 0 THEN {"Block size must be at least 1 bit"} ELSE {})
  \cup (IF ~s.null /\ s.value <= 0 THEN {"S-Box size must be at least 1 bit"} ELSE {})
  \cup (IF ~b.null /\ ~s.null /\ ~n.null
        THEN ThrownBy(parseRoundLayouts(form.roundLayoutText, b.value, s.value, n.value))
        ELSE {})
  \cup (IF ~b.null /\ ~pList.threw /\ pList.value.length = b.value
        THEN ThrownBy(normalizePermutation(pList.value, b.value))
        ELSE {})
  \cup (IF /\ ~b.null /\ ~s.null /\ b.value > 0 /\ s.value > 0
           /\ Trim(form.roundLayoutText) = <<>>
           /\ b.value % s.value # 0
        THEN {"not divisible"}
        ELSE {})

\* The problems of a form: `b`, `s`, `n` are the three number fields and
\* `sList`, `pList` the two tables, each read on its own.
ProblemsOf(form, b, s, n, sList, pList) ==
  Range(b.errors) \cup Range(s.errors) \cup Range(n.errors)
  \cup ThrownBy(sList) \cup ThrownBy(pList)
  \cup SizeProblems(form, b.value, s.value, n.value, sList, pList)

\* The messages of the problems a form has, each judged on its own fields.
ApplicableProblems(form) ==
  ProblemsOf(form,
             parseIntegerField(form.blockSize, "block size", <<>>),
             parseIntegerField(form.sBoxSize, "S-Box size", <<>>),
             parseIntegerField(form.numberOfRounds, "round count", <<>>),
             parseNumberList(form.sBoxTableText),
             parseNumberList(form.pBoxTableText))

\* C11: parseConfig returns either a layout with an empty error list or no
\* layout with a non-empty error list, never both and never neither.
C11_LayoutOrErrors ==
  \/ Accepted /\ parsed.errors = <<>>
  \/ ~Accepted /\ parsed.errors # <<>>

\* An edited form that was rejected with two messages.
C11_Witness ==
  /\ edits > 0
  /\ ~Accepted
  /\ Len(parsed.errors) >= 2

\* C12: validation does not short-circuit: every problem of the form is in
\* the returned error list, whatever other problems the form has.
C12_AllProblemsReported ==
  \A problem \in ApplicableProblems(formState) : problem \in Range(parsed.errors)

\* C13: an accepted layout's S-box table has exactly 2^sBox.size entries; a
\* form whose table has another length (an empty table, an S-box of 32 bits
\* or more) is rejected.
C13_SBoxTableLength ==
  Accepted => TableFits(Layout.sBox.table.length, Layout.sBox.size)

\* C14: an accepted layout has blockSize > 0, sBox.size > 0 and
\* numberOfRounds > 0; a zero or negative value in any of them is rejected.
C14_PositiveSizes ==
  Accepted => /\ Layout.blockSize > 0
              /\ Layout.sBox.size > 0
              /\ Layout.numberOfRounds > 0

\* C15: with round-layout text, an accepted layout has numberOfRounds rounds
\* (a single line reused for every round), every group has sBox.size bit
\* indexes, and the groups of a round hold every bit of 0..blockSize-1
\* exactly once; a wrong line count, group size, index or cover is rejected.
C15_RoundLayout ==
  (Accepted /\ Trim(formState.roundLayoutText) # <<>>) =>
    LET lineCount == LayoutLineCount(formState)
    IN /\ Len(Layout.rounds) = Layout.numberOfRounds
       /\ \/ lineCount = Layout.numberOfRounds
          \/ lineCount = 1 /\ Layout.numberOfRounds > 1
       /\ \A r \in DOMAIN Layout.rounds :
            LET sBoxes == Layout.rounds[r].sBoxes
            IN /\ \A k \in DOMAIN sBoxes :
                    /\ IsDense(sBoxes[k].bitIndexes)
                    /\ sBoxes[k].bitIndexes.length = Layout.sBox.size
                    /\ \A i \in Indexes(sBoxes[k].bitIndexes) :
                         sBoxes[k].bitIndexes.at[i] \in 0..(Layout.blockSize - 1)
               /\ \A bit \in 0..(Layout.blockSize - 1) :
                    Cardinality({<<k, i>> \in (DOMAIN sBoxes) \X (0..(Layout.blockSize - 1)) :
                                   /\ i \in Indexes(sBoxes[k].bitIndexes)
                                   /\ sBoxes[k].bitIndexes.at[i] = bit}) = 1
               /\ lineCount = 1 =>
                    \A k \in DOMAIN sBoxes :
                      sBoxes[k].bitIndexes = Layout.rounds[1].sBoxes[k].bitIndexes

\* A single line of two groups, accepted and reused for both rounds.
C15_Witness ==
  /\ Accepted
  /\ LayoutLineCount(formState) = 1
  /\ Trim(formState.roundLayoutText) # <<>>
  /\ Layout.numberOfRounds = 2
  /\ Len(Layout.rounds[2].sBoxes) = 2

\* ------------------------------------------------------- the trace being read

\* The characters of the lines that are read together: a nibble with two
\* bits, the inactive nibble and the masked column.
MaskChars == {"9", "-", "x"}

\* The characters of a line read alone: digits that set each bit of a nibble,
\* in both cases of the letters, the inactive nibble, both masks, a
\* character of no meaning and a blank.
LineChars == {"1", "2", "4", "8", "b", "E", "-", "x", "X", "g", " "}

\* The trace of the documentation's example.
ExampleTrace == << <<"1", "0", "0", "0">>, <<"0", "0", "0", "1">> >>

\* The last line with one more character: a digit makes the lengths uneven,
\* a blank is trimmed away.
Padded(lines, c) == [lines EXCEPT ![Len(lines)] = Append(@, c)]

InitTrace ==
  /\ PermIdle
  /\ NetIdle
  /\ PageIdle
  /\ BlockIdle
  /\ ListIdle
  /\ RestIdle
  /\ extracted = <<>>
  /\ reverse \in BOOLEAN
  /\ \/ \E n \in 0..MaxTrace, w \in 0..MaxColumns :
          states \in [1..n -> [1..w -> MaskChars]]
     \/ \E n \in 2..MaxTrace, w \in 0..(MaxColumns - 1), c \in {"9", " "} :
          \E lines \in [1..n -> [1..w -> MaskChars]] : states = Padded(lines, c)
     \/ \E w \in 0..MaxColumns :
          \E line \in [1..w -> LineChars] : states = <<line>>
     \/ states = ExampleTrace

\* The page hands the lines of a trace to extractHighlights.
ExtractHighlights ==
  /\ extracted = <<>>
  /\ extracted' = <<extractHighlights(states, reverse)>>
  /\ UNCHANGED <<permVars, netVars, pageVars, states, reverse, blockVars, listVars, restVars>>

NextTrace == ExtractHighlights

SpecTrace == InitTrace /\ [][NextTrace]_vars

\* ------------------------------------------------- claims on the trace parser

\* Whether extractHighlights was called, and how the call ended.
Extracted == extracted # <<>>
Succeeded == Extracted /\ ~extracted[1].threw
Failed == Extracted /\ extracted[1].threw

\* The lines as the claims read them: trimmed.
Lines == Trimmed(states)

\* Lines can be laid out in columns: all of one length, made of the
\* characters of a trace.
EvenLines(lines) == \A j, k \in DOMAIN lines : Len(lines[j]) = Len(lines[k])
LegibleLines(lines) ==
  \A k \in DOMAIN lines : \A i \in DOMAIN lines[k] :
    lines[k][i] \in {"0", "1", "2", "3", "4", "5", "6", "7", "8", "9",
                     "a", "b", "c", "d", "e", "f", "A", "B", "C", "D", "E", "F",
                     "-", "x", "X"}
Even == EvenLines(Lines)
Legible == LegibleLines(Lines)

\* The columns of even lines, and those no line masks.
ColumnsOf(lines) == IF lines = <<>> THEN {} ELSE DOMAIN lines[1]
MaskedIn(lines, i) == \E k \in DOMAIN lines : lines[k][i] \in {"x", "X"}
Columns == ColumnsOf(Lines)
Masked(i) == MaskedIn(Lines, i)
Retained == {i \in Columns : ~Masked(i)}

\* The n-th of the columns kept, counting from 1 in the order of the line,
\* and the lines without the other columns.
KeptAt(kept, n) == CHOOSE i \in kept : Cardinality({j \in kept : j < i}) = n - 1
KeptLine(line, kept) == [n \in 1..Cardinality(kept) |-> line[KeptAt(kept, n)]]
KeptLines(lines, kept) == [k \in DOMAIN lines |-> KeptLine(lines[k], kept)]
RetainedLines == KeptLines(Lines, Retained)

\* C16: when a trace is read, a column is removed from every line exactly
\* when some line has x or X in it, the columns that stay keep their order,
\* and the bits of each line are those of its retained columns alone.
C16_ColumnMasking ==
  (Succeeded /\ states # <<>>) =>
    \A retained \in {RetainedLines} :
      /\ FilteredStates(Lines, DropColumn(Lines)) = retained
      /\ \A k \in DOMAIN retained :
           \A line \in {parseStateLine(retained[k], reverse)} :
             /\ ~line.threw
             /\ extracted[1].value.highlights[k] = line.value.highlightBits

\* One line masks a column where another line has a nibble, and a column
\* with active bits is left.
C16_Witness ==
  /\ Succeeded
  /\ Len(states) >= 2
  /\ \E i, j \in Columns : i # j /\ Masked(i) /\ ~Masked(j)
  /\ \E k \in DOMAIN Lines : \E i \in Columns : Masked(i) /\ Lines[k][i] \notin {"x", "X"}
  /\ \E k \in DOMAIN Lines : extracted[1].value.highlights[k] # <<>>

\* C17: extractHighlights fails when the trimmed lines differ in length,
\* when a line holds a character outside 0-9, a-f, A-F, x, X and -, or when
\* every column is masked; in every other case it succeeds with one list of
\* bits for each input line, in the order of the lines.
C17_FailureCases ==
  (Extracted /\ states # <<>>) =>
    /\ \A lines \in {Lines} :
         Failed <=> \/ ~EvenLines(lines)
                    \/ ~LegibleLines(lines)
                    \/ \A i \in ColumnsOf(lines) : MaskedIn(lines, i)
    /\ Succeeded =>
         /\ Len(extracted[1].value.highlights) = Len(states)
         /\ \A retained \in {RetainedLines} : \A k \in DOMAIN states :
              extracted[1].value.highlights[k]
                = extractHighlights(<<retained[k]>>, reverse).value.highlights[1]

\* Every column of a trace of two even, legible lines is masked, each line
\* masking a column of its own, and the call failed.
C17_Witness ==
  /\ Failed
  /\ Len(states) = 2
  /\ Even /\ Legible
  /\ Cardinality(Columns) = 2
  /\ \A i \in Columns : Masked(i)
  /\ \A k \in DOMAIN Lines : \E i \in Columns : Lines[k][i] \notin {"x", "X"}

\* The other cases of the claim: a success with two lines of different bits,
\* and the two other failures.
C17_WitnessSuccess ==
  /\ Succeeded
  /\ Len(states) = 2
  /\ extracted[1].value.highlights[1] # extracted[1].value.highlights[2]

C17_WitnessUneven == Failed /\ ~Even
C17_WitnessIllegible == Failed /\ Even /\ ~Legible

\* The value of a character of a retained column.
NibbleOf(c) ==
  CASE c = "-" -> 0
    [] c \in {"0", "1", "2", "3", "4", "5", "6", "7", "8", "9"} ->
         CHOOSE v \in 0..9 : <<"0", "1", "2", "3", "4", "5", "6", "7", "8", "9">>[v + 1] = c
    [] c \in {"a", "A"} -> 10
    [] c \in {"b", "B"} -> 11
    [] c \in {"c", "C"} -> 12
    [] c \in {"d", "D"} -> 13
    [] c \in {"e", "E"} -> 14
    [] c \in {"f", "F"} -> 15

\* The nibble at index n of a retained line, counting from 0, from the end
\* when the nibbles are reversed.
Decoded(line, n) == NibbleOf(line[IF reverse THEN Len(line) - n ELSE n + 1])

\* The bits the claim expects of a retained line: 4n + b for bit b of the
\* nibble at index n.
TraceBits(line) ==
  {i \in 0..(4 * Len(line) - 1) : (Decoded(line, i \div 4) \div (2 ^ (i % 4))) % 2 = 1}

\* The bits that were extracted for line k, as a set.
BitsOfRound(k) ==
  {extracted[1].value.highlights[k][j] : j \in DOMAIN extracted[1].value.highlights[k]}

\* C18: the active bits of a retained line are exactly the bits 4n + b where
\* bit b of the nibble at index n is set ('-' is 0), the nibbles taken in
\* reverse when reverseNibbles is set; the inferred block size is 4 times the
\* number W of retained columns, and every bit lies in 0..4W-1.
C18_ActiveBits ==
  (Succeeded /\ states # <<>>) =>
    \A retained \in {RetainedLines} : \A W \in {Len(retained[1])} :
      /\ extracted[1].value.blockSize = 4 * W
      /\ \A k \in DOMAIN retained :
           \A bits \in {BitsOfRound(k)} :
             /\ bits = TraceBits(retained[k])
             /\ Len(extracted[1].value.highlights[k]) = Cardinality(bits)
             /\ bits \subseteq 0..(4 * W - 1)

\* A line of two retained nibbles, the first with bits and the second with
\* other bits, was decoded in reverse.
C18_Witness ==
  /\ Succeeded
  /\ reverse
  /\ Cardinality(Retained) = 2
  /\ \E k \in DOMAIN Lines :
       /\ NibbleOf(RetainedLines[k][1]) # NibbleOf(RetainedLines[k][2])
       /\ \E i \in BitsOfRound(k) : i >= 4
       /\ \E i \in BitsOfRound(k) : i < 4

\* The example of the documentation was read, nibbles in the order given.
ExampleRead == Succeeded /\ states = ExampleTrace /\ ~reverse

\* C19 as it is stated: the trace ["1000", "0001"] read without reversal
\* gives the bits {0} for round 0, {3} for round 1 and the block size 4.
C19_ExampleAsStated ==
  (Extracted /\ states = ExampleTrace /\ ~reverse) =>
    /\ Succeeded
    /\ BitsOfRound(1) = {0}
    /\ BitsOfRound(2) = {3}
    /\ extracted[1].value.blockSize = 4

\* C19, amended: the trace ["1000", "0001"] read without reversal gives the
\* bits {0} for round 0, {12} for round 1 and the block size 16: each of the
\* four characters is a nibble of four bits.
C19_Example ==
  (Extracted /\ states = ExampleTrace /\ ~reverse) =>
    /\ Succeeded
    /\ BitsOfRound(1) = {0}
    /\ BitsOfRound(2) = {12}
    /\ extracted[1].value.blockSize = 16

C19_Witness == ExampleRead /\ Len(extracted[1].value.highlights) = 2

\* ---------------------------------------- the visualizer page across renders

\* decodeConfigSearch(data.config) of a message that carries every field: the
\* fields as they are.
decodeConfigSearch(data) ==
  [blockSize |-> data.blockSize, sBoxSize |-> data.sBoxSize,
   numberOfRounds |-> data.numberOfRounds,
   sBoxTableText |-> data.sBoxTableText, pBoxTableText |-> data.pBoxTableText,
   applyFinalPermutation |-> data.applyFinalPermutation,
   roundLayoutText |-> data.roundLayoutText]

\* decodeHighlights(data.highlights): the numbers that are finite and not
\* negative, round by round.
decodeHighlights(data) ==
  [r \in DOMAIN data |-> SelectSeq(data[r], LAMBDA value : value >= 0)]

\* The forms a handoff message carries.
ViewForms == {TwoBitForm, ExampleForm}

\* What is typed while the page is watched: the P-box as "0, 1", "1, 0" or
\* "0 0" (a repeated position), the round count as 1 or 2.
ViewEdits(form) ==
  {[form EXCEPT !.pBoxTableText = t] :
     t \in {<<"0", ",", " ", "1">>, <<"1", ",", " ", "0">>, <<"0", " ", "0">>}}
  \cup {[form EXCEPT !.numberOfRounds = t] : t \in {<<"1">>, <<"2">>}}

\* pInverse = useMemo(() => (config ? invertPermutation(config.pBox) : []))
InverseOf(c) == IF c.null THEN Return(IdentityArray(0)) ELSE invertPermutation(c.value.pBox)

\* `${selector} { stroke: #e53e3e; stroke-width: 2px; }`
StyleRule(selector) == selector \o " { stroke: #e53e3e; stroke-width: 2px; }"

\* The rules of innerHTML, one for each selector, in order.
StyleRules(list) == [k \in DOMAIN list |-> StyleRule(list[k])]

\* initializedFromSearch as the message listener sees it: the listener is
\* registered once, by the effect of the first render, and keeps the value
\* of that render.
ListenerInitialized == FALSE

\* The page is mounted on a form a handoff gave it; its first highlight
\* effect is due.
InitView ==
  /\ PermIdle
  /\ TraceIdle
  /\ BlockIdle
  /\ ListIdle
  /\ RestIdle
  /\ config = <<>>
  /\ stageData = <<>>
  /\ bitPositions = <<>>
  /\ connections = <<>>
  /\ selectors = <<>>
  /\ formState \in ViewForms
  /\ edits = 0
  /\ parsed = parseConfig(formState)
  /\ ~InverseOf(parsed.config).threw
  /\ pInverse = InverseOf(parsed.config).value
  /\ highlightBits = <<>>
  /\ initializedFromSearch = FALSE
  /\ styleSheet = <<>>
  /\ cleanup = FALSE
  /\ phase = "effect"

\* ConfigForm's onChange={setFormState}: a field is typed into.
OnChange ==
  /\ phase = "painted"
  /\ edits < MaxEdits
  /\ edits' = edits + 1
  /\ \E form \in ViewEdits(formState) \ {formState} : formState' = form
  /\ phase' = "set:form"
  /\ UNCHANGED <<config, pInverse, stageData, bitPositions, connections, highlightBits,
                 selectors, parsed, initializedFromSearch, styleSheet, cleanup,
                 permVars, traceVars, blockVars, listVars, restVars>>

\* The state a message sets: its config, its highlights, both or neither.
MessageSets(withConfig, withHighlights) ==
  IF withConfig /\ withHighlights THEN "set:both"
  ELSE IF withConfig THEN "set:form"
  ELSE IF withHighlights THEN "set:bits"
  ELSE "set:none"

\* onMessage(event)
OnMessage ==
  /\ phase = "painted"
  /\ edits < MaxEdits
  /\ ~ListenerInitialized
  /\ edits' = edits + 1
  /\ \E withConfig \in BOOLEAN, withHighlights \in BOOLEAN :
       /\ IF withConfig
          THEN \E data \in ViewForms : formState' = decodeConfigSearch(data)
          ELSE formState' = formState
       /\ IF withHighlights
          THEN \E data \in HighlightInputs(2) : highlightBits' = decodeHighlights(data)
          ELSE highlightBits' = highlightBits
       /\ phase' = MessageSets(withConfig, withHighlights)
  /\ initializedFromSearch' = TRUE
  /\ UNCHANGED <<config, pInverse, stageData, bitPositions, connections, selectors,
                 parsed, styleSheet, cleanup, permVars, traceVars, blockVars, listVars, restVars>>

\* Mutant of DepsChanged: the effect depends on the config alone.
DepsChanged_ConfigOnly(configChanged, bitsSet) == configChanged

\* useEffect(..., [config, highlightBits, pInverse]): pInverse is new exactly
\* when config is.
DepsChanged(configChanged, bitsSet) == configChanged \/ bitsSet

\* What a render hands to the commit: the effect runs again when its
\* dependencies changed, after the cleanup the last run returned.
AfterRender(due) ==
  IF ~due THEN "painted" ELSE IF cleanup THEN "cleanup" ELSE "effect"

\* useMemo(() => parseConfig(formState), [formState]) gives a new config
\* object whenever formState was set, unless it is null again.
ConfigChanged(formSet, next) == formSet /\ ~(parsed.config.null /\ next.config.null)

RenderWith(formSet, bitsSet, next, inverse) ==
  /\ parsed' = next
  /\ IF inverse.threw
     THEN /\ phase' = "crashed"
          /\ pInverse' = pInverse
     ELSE /\ phase' = AfterRender(DepsChanged(ConfigChanged(formSet, next), bitsSet))
          /\ pInverse' = IF ConfigChanged(formSet, next) THEN inverse.value ELSE pInverse

RenderNext(formSet, bitsSet, next) ==
  RenderWith(formSet, bitsSet, next, InverseOf(next.config))

\* SpnVisualizer renders again after a state was set.
Render ==
  /\ phase \in {"set:form", "set:bits", "set:both", "set:none"}
  /\ IF phase \in {"set:form", "set:both"}
     THEN \E next \in {parseConfig(formState)} :
            RenderNext(TRUE, phase = "set:both", next)
     ELSE RenderNext(FALSE, phase = "set:bits", parsed)
  /\ UNCHANGED <<config, stageData, bitPositions, connections, highlightBits, selectors,
                 formState, edits, initializedFromSearch, styleSheet, cleanup,
                 permVars, traceVars, blockVars, listVars, restVars>>

\* return () => { styleEl.innerHTML = '' }
RunCleanup ==
  /\ phase = "cleanup"
  /\ styleSheet' = <<>>
  /\ cleanup' = FALSE
  /\ phase' = "effect"
  /\ UNCHANGED <<config, pInverse, stageData, bitPositions, connections, highlightBits,
                 selectors, formState, edits, parsed, initializedFromSearch,
                 permVars, traceVars, blockVars, listVars, restVars>>

\* The highlight effect: the style element is found or made, then emptied
\* or given the rules of the selectors.
RunEffect ==
  /\ phase = "effect"
  /\ IF parsed.config.null \/ Len(highlightBits) = 0
     THEN /\ styleSheet' = <<>>
          /\ cleanup' = FALSE
     ELSE /\ styleSheet' = StyleRules(buildHighlightSelectors(highlightBits,
                                                              parsed.config.value, pInverse))
          /\ cleanup' = TRUE
  /\ phase' = "painted"
  /\ UNCHANGED <<config, pInverse, stageData, bitPositions, connections, highlightBits,
                 selectors, formState, edits, parsed, initializedFromSearch,
                 permVars, traceVars, blockVars, listVars, restVars>>

NextView ==
  \/ OnChange
  \/ OnMessage
  \/ Render
  \/ RunCleanup
  \/ RunEffect

SpecView == InitView /\ [][NextView]_vars

\* ------------------------------------------------- claims on the style sheet

\* The rules of the triple (layout, highlights, inverse permutation) of a
\* form: none when the form is invalid or there are no highlights.
RulesOf(c) ==
  IF c.null \/ highlightBits = <<>> THEN <<>>
  ELSE StyleRules(buildHighlightSelectors(highlightBits, c.value,
                                          invertPermutation(c.value.pBox).value))

\* C20: once the page has rendered and run its effects, after any changes to
\* the form and to the highlight bits, the style sheet holds exactly the rules
\* of the current layout, highlights and inverse permutation, and no rule at
\* all when the form is invalid or there are no highlights: no rule of an
\* earlier form or of earlier highlights is left.
C20_StyleSheetCurrent ==
  phase = "painted" =>
    \A c \in {parseConfig(formState).config} : styleSheet = RulesOf(c)

\* After a message and another change the sheet holds rules, among them one
\* that follows the inverse permutation.
C20_Witness ==
  /\ phase = "painted"
  /\ edits >= 2
  /\ initializedFromSearch
  /\ formState \notin ViewForms
  /\ Len(styleSheet) >= 3
  /\ cleanup

\* After rules were written the form became invalid and the sheet is empty.
C20_WitnessInvalid ==
  /\ phase = "painted"
  /\ parsed.config.null
  /\ highlightBits # <<>>
  /\ \E r \in DOMAIN highlightBits : highlightBits[r] # <<>>
  /\ styleSheet = <<>>

\* ----------------------------------- routes/index: the print-state block handler

\* rawLines.map((line) => line.trim()).filter((line) => line && !line.startsWith('#'))
Cleaned(rawLines) ==
  SelectSeq(Trimmed(rawLines), LAMBDA line : line # <<>> /\ line[1] # "#")

\* String(highlights.length || cleaned.length)
RoundCountText(highlights, lines) ==
  DecimalText(IF Len(highlights) # 0 THEN Len(highlights) ELSE Len(lines))

\* const safeBlockSize = blockSize > 0 ? blockSize : undefined, as a text that
\* is empty when undefined
SafeBlockSizeText(blockSize) == IF blockSize > 0 THEN DecimalText(blockSize) ELSE <<>>

\* The blockSize field handlePrintStateBlock sets.
BlockSizeOfBlock(prev, safe, touched) ==
  IF safe # <<>> /\ ~touched THEN safe
  ELSE IF prev.blockSize # <<>> THEN prev.blockSize
  ELSE safe

\* The blockSize field the recompute effect sets.
BlockSizeOfRecompute(prev, safe, touched) ==
  IF safe # <<>> /\ ~touched THEN safe ELSE prev.blockSize

\* The blocks the terminal shows: one line, two lines, a line within blanks
\* and a comment, a masked column; then blocks that do not parse (uneven
\* lines, a character of no meaning, every column masked) and blocks with
\* nothing to parse.
PrintStateBlocks ==
  {<< <<"1">> >>, << <<"1", "2">> >>, << <<"1", "2">>, <<"2", "1">> >>,
   << <<" ", "2", "1", " ">>, <<"#", "1">> >>, << <<"1", "x">>, <<"2", "1">> >>}
  \cup {<< <<"1">>, <<"2", "2">> >>, << <<"g">> >>, << <<"x">> >>}
  \cup {<<>>, << <<" ">> >>, << <<"#">> >>}

\* What is typed into the block size field of the modal.
TypedBlockSizes == {<<>>, <<"8">>}

InitBlock ==
  /\ PermIdle
  /\ NetIdle
  /\ PageIdle
  /\ TraceIdle
  /\ BlockIdle
  /\ ListIdle
  /\ RestIdle

\* try { extractHighlights(cleaned, reverseHighlights) ... } catch { ... } of
\* handlePrintStateBlock, for the result of the call.
BlockParsed(cleaned, outcome) ==
  /\ extracted' = <<outcome>>
  /\ IF outcome.threw
     THEN /\ status' = "Failed to parse print-state block: " \o outcome.error
          /\ UNCHANGED <<editorHighlightBits, visualizerForm, lastBlock>>
     ELSE /\ editorHighlightBits' = outcome.value.highlights
          /\ visualizerForm' =
               [visualizerForm EXCEPT
                  !.numberOfRounds = RoundCountText(outcome.value.highlights, cleaned),
                  !.blockSize = BlockSizeOfBlock(visualizerForm,
                                                 SafeBlockSizeText(outcome.value.blockSize),
                                                 blockSizeTouched)]
          /\ lastBlock' = cleaned
          /\ status' = status

\* Mutant of Remembered: the lines are remembered once they have parsed.
Remembered_WhenParsed(cleaned, outcome) == IF outcome.threw THEN states ELSE cleaned

\* rawStatesRef.current = cleaned, before the lines are parsed
Remembered(cleaned, outcome) == cleaned

BlockCleaned(cleaned, outcome) ==
  /\ states' = Remembered(cleaned, outcome)
  /\ blockSizeTouched' = FALSE
  /\ recompute' = blockSizeTouched
  /\ BlockParsed(cleaned, outcome)

\* handlePrintStateBlock(rawLines)
HandlePrintStateBlock ==
  /\ ~recompute
  /\ \E rawLines \in PrintStateBlocks :
       \E cleaned \in {Cleaned(rawLines)} :
         IF cleaned = <<>>
         THEN UNCHANGED <<traceVars, blockVars>>
         ELSE /\ BlockCleaned(cleaned, extractHighlights(cleaned, reverse))
              /\ reverse' = reverse
  /\ UNCHANGED <<permVars, netVars, pageVars, listVars, restVars>>

\* The reverse-nibbles box of the modal: setReverseHighlights(checked)
ToggleReverse ==
  /\ ~recompute
  /\ reverse' = ~reverse
  /\ recompute' = TRUE
  /\ UNCHANGED <<permVars, netVars, pageVars, listVars, restVars, states, extracted, editorHighlightBits,
                 visualizerForm, blockSizeTouched, status, lastBlock>>

\* The block size field of the modal: setBlockSizeTouched(true) and the text
\* typed.
TouchBlockSize ==
  /\ ~recompute
  /\ \E typed \in TypedBlockSizes \ {visualizerForm.blockSize} :
       visualizerForm' = [visualizerForm EXCEPT !.blockSize = typed]
  /\ blockSizeTouched' = TRUE
  /\ recompute' = ~blockSizeTouched
  /\ UNCHANGED <<permVars, netVars, pageVars, listVars, restVars, traceVars, editorHighlightBits, status,
                 lastBlock>>

\* The body of the recompute effect, for the result of the call.
Recomputed(outcome) ==
  /\ extracted' = <<outcome>>
  /\ IF outcome.threw
     THEN /\ status' = "Failed to recompute highlight bits: " \o outcome.error
          /\ UNCHANGED <<editorHighlightBits, visualizerForm>>
     ELSE /\ editorHighlightBits' = outcome.value.highlights
          /\ visualizerForm' =
               [visualizerForm EXCEPT
                  !.numberOfRounds = RoundCountText(outcome.value.highlights, states),
                  !.blockSize = BlockSizeOfRecompute(visualizerForm,
                                                     SafeBlockSizeText(outcome.value.blockSize),
                                                     blockSizeTouched)]
          /\ status' = status

\* useEffect(..., [blockSizeTouched, reverseHighlights, updateStatus])
RecomputeEffect ==
  /\ recompute
  /\ recompute' = FALSE
  /\ IF states = <<>>
     THEN UNCHANGED <<extracted, editorHighlightBits, visualizerForm, status>>
     ELSE Recomputed(extractHighlights(states, reverse))
  /\ UNCHANGED <<permVars, netVars, pageVars, listVars, restVars, states, reverse, blockSizeTouched, lastBlock>>

NextBlock ==
  \/ HandlePrintStateBlock
  \/ ToggleReverse
  \/ TouchBlockSize
  \/ RecomputeEffect

SpecBlock == InitBlock /\ [][NextBlock]_vars

\* ------------------------------------------------ a call of parseNumberList

\* The tokens of the texts that are read: decimal, hexadecimal with the 0x
\* prefix or the h suffix in both cases, a sign, digits followed by other
\* characters, and tokens without a digit.
ListTokens ==
  {<<"1">>, <<"2">>, <<"3">>, <<"0", "1", "0">>, <<"-", "5">>,
   <<"A", "h">>, <<"a", "H">>, <<"1", "0", "h">>, <<"0", "x", "F">>, <<"0", "X", "f">>,
   <<"1", "2", "a", "b", "c">>, <<"1", ".", "5">>, <<"0", "x", "F", "h">>,
   <<"z", "z">>, <<"h">>, <<"0", "x">>, <<"-">>}

\* The tokens of the longer texts.
ShortTokens == {<<"1">>, <<"2">>, <<"3">>, <<"0", "x", "F">>}

\* What stands between two tokens, and before and after them.
Separators == {<<",">>, <<",", " ">>, <<",", ",">>, <<";", "\n">>}
Margins == {<<>>, <<",">>, <<" ">>}

\* tokens[1] sep tokens[2] sep ... tokens[n]
RECURSIVE JoinTokens(_, _)
JoinTokens(tokens, sep) ==
  IF tokens = <<>> THEN <<>>
  ELSE IF Len(tokens) = 1 THEN tokens[1]
  ELSE tokens[1] \o sep \o JoinTokens(Tail(tokens), sep)

InitList ==
  /\ PermIdle
  /\ NetIdle
  /\ PageIdle
  /\ TraceIdle
  /\ BlockIdle
  /\ RestIdle
  /\ listed = <<>>
  /\ \E before \in Margins, after \in Margins :
       \/ \E token \in ListTokens \cup {<<>>} : listText = before \o token \o after
       \/ \E n \in 2..MaxLen, sep \in Separators :
            \E tokens \in [1..n -> ShortTokens] :
              listText = before \o JoinTokens(tokens, sep) \o after

\* The validator hands a table text to parseNumberList.
ParseNumberList ==
  /\ listed = <<>>
  /\ listed' = <<parseNumberList(listText)>>
  /\ UNCHANGED <<permVars, netVars, pageVars, traceVars, blockVars, restVars, listText>>

NextList == ParseNumberList

SpecList == InitList /\ [][NextList]_vars

\* ------------------------------------------------ claims on parseNumberList

\* The segments of the text as the claims read them: what stands between
\* two separator characters, or between one and an end of the text.
SegmentEnds == {0} \cup {i \in DOMAIN listText : IsSeparator(listText[i])} \cup {Len(listText) + 1}
Segments ==
  {<<i, j>> \in SegmentEnds \X SegmentEnds :
     i < j /\ \A k \in (i + 1)..(j - 1) : ~IsSeparator(listText[k])}
HasBlankSegment == \E seg \in Segments : seg[2] = seg[1] + 1 /\ Len(listText) > 0

\* The tokens of the text, in order: its segments that are not blank.
ClaimTokens == TokensAt(listText, TokenStarts(listText))

Listed == listed # <<>>

\* C22 as it is stated: parseNumberList fails with the empty-token error
\* whenever the text has a blank segment: two separators with nothing between
\* them, or a separator at the start or the end.
C22_EmptyTokenAsStated ==
  (Listed /\ HasBlankSegment) =>
    /\ listed[1].threw
    /\ listed[1].error = "Encountered empty numeric token"

\* C22, amended: parseNumberList never fails with the empty-token error; a
\* blank segment is skipped, so that a text whose tokens are all numbers is
\* read as the list of those numbers whatever separators surround them, and a
\* text without a token gives the empty list.
C22_BlankSegmentsSkipped ==
  Listed =>
    /\ listed[1].threw => listed[1].error # "Encountered empty numeric token"
    /\ \A tokens \in {ClaimTokens} :
         /\ (tokens = <<>>) => (~listed[1].threw /\ listed[1].value.length = 0)
         /\ listed[1] = parseNumberList(JoinTokens(tokens, <<",">>))

\* A text with a separator at the start and two separators between its tokens
\* was read as a list of two numbers.
C22_Witness ==
  /\ Listed
  /\ ~listed[1].threw
  /\ listed[1].value.length = 2
  /\ IsSeparator(listText[1])
  /\ \E i \in 1..(Len(listText) - 1) : listText[i] = "," /\ listText[i + 1] = ","

\* A complete integer literal as the claim has it: decimal digits, with a
\* sign or without; 0x or 0X and hexadecimal digits; hexadecimal digits and
\* h or H.
AllDigits(chars, radix) == chars # <<>> /\ \A i \in DOMAIN chars : IsDigit(chars[i], radix)
Unsigned(token) == IF HasSign(token) THEN Tail(token) ELSE token
IsDecimalLiteral(token) == AllDigits(Unsigned(token), 10)
IsPrefixedLiteral(token) ==
  /\ Len(token) >= 3
  /\ token[1] = "0" /\ token[2] \in {"x", "X"}
  /\ AllDigits(SubSeq(token, 3, Len(token)), 16)
IsSuffixedLiteral(token) ==
  /\ Len(token) >= 2
  /\ token[Len(token)] \in {"h", "H"}
  /\ AllDigits(SubSeq(token, 1, Len(token) - 1), 16)
IsLiteral(token) ==
  IsDecimalLiteral(token) \/ IsPrefixedLiteral(token) \/ IsSuffixedLiteral(token)

\* The number a run of digits stands for.
RECURSIVE DigitsValue(_, _)
DigitsValue(chars, radix) ==
  IF chars = <<>> THEN 0
  ELSE DigitsValue(SubSeq(chars, 1, Len(chars) - 1), radix) * radix
       + DigitValue(chars[Len(chars)])

LiteralValue(token) ==
  IF IsSuffixedLiteral(token) THEN DigitsValue(SubSeq(token, 1, Len(token) - 1), 16)
  ELSE IF IsPrefixedLiteral(token) THEN DigitsValue(SubSeq(token, 3, Len(token)), 16)
  ELSE IF HasSign(token) /\ token[1] = "-" THEN 0 - DigitsValue(Tail(token), 10)
  ELSE DigitsValue(Unsigned(token), 10)

\* C23: parseNumberList fails when some token is not a complete integer
\* literal, also when the token starts with digits and goes on with other
\* characters; when every token is a literal it returns their values in the
\* order of the text, duplicates kept.
C23_InvalidTokensRejected ==
  Listed =>
    \A tokens \in {ClaimTokens} :
      /\ listed[1].threw <=> \E k \in DOMAIN tokens : ~IsLiteral(tokens[k])
      /\ ~listed[1].threw =>
           /\ listed[1].value.length = Len(tokens)
           /\ \A k \in DOMAIN tokens : listed[1].value.at[k - 1] = LiteralValue(tokens[k])

\* The part of C23 the code keeps: texts of literals are read as their values
\* in order ("1, 2, 3", "Ah", "0xF, 2"), and a token without a leading digit
\* is refused.
C23_LiteralsRead ==
  Listed =>
    \A tokens \in {ClaimTokens} :
      /\ (\A k \in DOMAIN tokens : IsLiteral(tokens[k])) =>
           /\ ~listed[1].threw
           /\ listed[1].value.length = Len(tokens)
           /\ \A k \in DOMAIN tokens : listed[1].value.at[k - 1] = LiteralValue(tokens[k])
      /\ (\E k \in DOMAIN tokens : tokens[k] \in {<<"z", "z">>, <<"h">>, <<"0", "x">>, <<"-">>}) =>
           listed[1].threw

\* ------------------------------------------- claims on the print-state block

\* C21: a block that fails to parse is reported and leaves the highlight
\* state as the last block that parsed made it: once the page is at rest,
\* the highlight bits and the round count of the form are those of the last
\* parsed block under the reverse switch as it is now, also after the switch
\* was toggled since the failure; without a parsed block there are none.
C21_PriorStateKept ==
  ~recompute =>
    /\ (states # lastBlock) => status # ""
    /\ IF lastBlock = <<>>
       THEN editorHighlightBits = <<>> /\ visualizerForm.numberOfRounds = <<>>
       ELSE \A outcome \in {extractHighlights(lastBlock, reverse)} :
              /\ editorHighlightBits = outcome.value.highlights
              /\ visualizerForm.numberOfRounds = DecimalText(Len(lastBlock))

\* ------------------------------------- server/bonc: the SAT backend's arguments

\* The values an option can hold: undefined, a boolean, a number, a string.
JsUndefined == [type |-> "undefined", chars |-> <<>>, number |-> 0, boolean |-> FALSE]
JsBoolean(b) == [type |-> "boolean", chars |-> <<>>, number |-> 0, boolean |-> b]
JsNumber(n) == [type |-> "number", chars |-> <<>>, number |-> n, boolean |-> FALSE]
JsString(chars) == [type |-> "string", chars |-> chars, number |-> 0, boolean |-> FALSE]

\* Whether a value counts as true in a condition.
Truthy(value) ==
  CASE value.type = "undefined" -> FALSE
    [] value.type = "boolean" -> value.boolean
    [] value.type = "number" -> value.number # 0
    [] value.type = "string" -> value.chars # <<>>

\* String(value)
StringOf(value) ==
  CASE value.type = "undefined" -> <<"u", "n", "d", "e", "f", "i", "n", "e", "d">>
    [] value.type = "boolean" ->
         IF value.boolean THEN <<"t", "r", "u", "e">> ELSE <<"f", "a", "l", "s", "e">>
    [] value.type = "number" -> DecimalText(value.number)
    [] value.type = "string" -> value.chars

\* Number(value) of a value that is not undefined, for numbers from 0 on and
\* strings of decimal digits, blanks and letters: <<n>>, or <<>> for NaN.
ToNumber(value) ==
  CASE value.type = "boolean" -> <<IF value.boolean THEN 1 ELSE 0>>
    [] value.type = "number" -> <<value.number>>
    [] value.type = "string" ->
         IF Trim(value.chars) = <<>> THEN <<0>>
         ELSE IF \A i \in DOMAIN Trim(value.chars) : IsDigit(Trim(value.chars)[i], 10)
              THEN <<DigitRun(Trim(value.chars), 10, FALSE, 0)>>
              ELSE <<>>

BadRequestError(message) == [name |-> "BadRequestError", message |-> message]

\* The words of the command line.
FlagInput == <<"-", "-", "i", "n", "p", "u", "t">>
FlagD == <<"-", "d">>
FlagL == <<"-", "l">>
FlagI == <<"-", "I">>
FlagW == <<"-", "w">>
FlagSolve == <<"-", "-", "s", "o", "l", "v", "e">>
FlagPrintStates == <<"-", "-", "p", "r", "i", "n", "t", "-", "s", "t", "a", "t", "e", "s">>
FlagOutput == <<"-", "-", "o", "u", "t", "p", "u", "t">>
Differential == <<"d", "i", "f", "f", "e", "r", "e", "n", "t", "i", "a", "l">>
Linear == <<"l", "i", "n", "e", "a", "r">>

\* <<>> for null, <<n>> for the number n.
parseOptionalNumber(value, label) ==
  IF value = JsUndefined \/ value = JsString(<<>>) THEN Return(<<>>)
  ELSE IF ToNumber(value) = <<>>
       THEN Throw(BadRequestError(label \o " must be a number."))
       ELSE Return(ToNumber(value))

\* The mode's flag.
ModeArgs(mode) ==
  IF mode = JsString(Differential) THEN Return(<<FlagD>>)
  ELSE IF mode = JsString(Linear) THEN Return(<<FlagL>>)
  ELSE Throw(BadRequestError("SAT backend requires differential or linear mode."))

InputBitsArgs(inputBits) ==
  IF inputBits.type = "string" /\ Trim(inputBits.chars) # <<>>
  THEN <<FlagI, Trim(inputBits.chars)>>
  ELSE <<>>

MaxWeightArgs(maxWeight) ==
  IF maxWeight # <<>> THEN <<FlagW, DecimalText(maxWeight[1])>> ELSE <<>>

IsBlankOption_Falsy(value) == ~Truthy(value)

\* !value || !String(value).trim()
IsBlankOption(value) == ~Truthy(value) \/ Trim(StringOf(value)) = <<>>

\* The arguments that end the list: to solve, or to write the model out.
SolveArgs(options_) ==
  IF Truthy(options_.solve)
  THEN IF IsBlankOption(options_.printStates)
       THEN Throw(BadRequestError("Print states is required when solve is enabled."))
       ELSE Return(<<FlagSolve, FlagPrintStates, Trim(StringOf(options_.printStates))>>)
  ELSE IF IsBlankOption(options_.outputPath)
       THEN Throw(BadRequestError("Output path is required when solve is disabled."))
       ELSE Return(<<FlagOutput, Trim(StringOf(options_.outputPath))>>)

buildSatArgs(jsonPath_, options_) ==
  LET mode == ModeArgs(options_.mode)
      maxWeight == parseOptionalNumber(options_.maxWeight, "Max weight")
      solve == SolveArgs(options_)
  IN IF mode.threw THEN mode
     ELSE IF maxWeight.threw THEN maxWeight
     ELSE IF solve.threw THEN solve
     ELSE Return(<<FlagInput, jsonPath_>> \o mode.value
                 \o InputBitsArgs(options_.inputBits)
                 \o MaxWeightArgs(maxWeight.value) \o solve.value)

\* --------------------------------------------------- a call of buildSatArgs

\* The option values the calls are made with: missing, empty, blank, padded,
\* words that are also flags, and values that are not strings.
SatModes ==
  {JsString(Differential), JsString(Linear), JsString(<<"x">>), JsString(<<>>),
   JsUndefined}
SatTexts ==
  {JsUndefined, JsString(<<>>), JsString(<<" ">>), JsString(<<" ", "a", " ">>),
   JsString(FlagL), JsString(FlagOutput), JsString(FlagSolve), JsNumber(0),
   JsNumber(5)}
SatInputBits == {JsUndefined, JsString(<<" ">>), JsString(FlagD), JsNumber(5)}
SatWeights ==
  {JsUndefined, JsString(<<>>), JsString(<<" ">>), JsString(<<"7">>),
   JsString(<<"x">>), JsNumber(3)}
SatSolves == {JsBoolean(TRUE), JsBoolean(FALSE), JsUndefined, JsString(<<"n", "o">>)}
SatPaths == {<<"j">>, FlagD}

SatOptions ==
  [mode : SatModes, inputBits : SatInputBits, maxWeight : SatWeights,
   solve : SatSolves, printStates : SatTexts, outputPath : SatTexts]

InitSat ==
  /\ PermIdle
  /\ NetIdle
  /\ PageIdle
  /\ TraceIdle
  /\ BlockIdle
  /\ ListIdle
  /\ ServerIdle
  /\ PtyIdle
  /\ jsonPath \in SatPaths
  /\ options \in SatOptions
  /\ satArgs = <<>>

\* buildBackendCommand asks for the arguments of the SAT backend.
BuildSatArgs ==
  /\ satArgs = <<>>
  /\ satArgs' = <<buildSatArgs(jsonPath, options)>>
  /\ UNCHANGED <<permVars, netVars, pageVars, traceVars, blockVars, listVars,
                 serverVars, ptyVars, jsonPath, options>>

NextSat == BuildSatArgs

SpecSat == InitSat /\ [][NextSat]_vars

\* ---------------------------------------------------- claims on buildSatArgs

\* The command line as the backend reads it: each flag, with the word after
\* it where the flag takes a value.
ValueFlags == {FlagInput, FlagI, FlagW, FlagPrintStates, FlagOutput}

RECURSIVE ReadArgs(_)
ReadArgs(list) ==
  IF list = <<>> THEN <<>>
  ELSE IF Head(list) \in ValueFlags /\ Len(list) >= 2
       THEN <<[flag |-> Head(list), value |-> <<list[2]>>]>> \o ReadArgs(Tail(Tail(list)))
       ELSE <<[flag |-> Head(list), value |-> <<>>]>> \o ReadArgs(Tail(list))

HasFlag(read, flag) == \E k \in DOMAIN read : read[k].flag = flag

\* The flag is given, each time with a value that is not blank.
HasValue(read, flag) ==
  /\ HasFlag(read, flag)
  /\ \A k \in DOMAIN read :
       read[k].flag = flag => read[k].value # <<>> /\ Trim(read[k].value[1]) # <<>>

\* The option is missing, or a string that is empty or blank.
Without(value) ==
  value = JsUndefined \/ (value.type = "string" /\ Trim(value.chars) = <<>>)

SatArgsWellFormed(list) ==
  \A read \in {ReadArgs(list)} :
    /\ Len(list) >= 2 /\ list[1] = FlagInput /\ list[2] = jsonPath
    /\ Cardinality({k \in DOMAIN read : read[k].flag \in {FlagD, FlagL}}) = 1
    /\ \/ /\ HasFlag(read, FlagSolve)
          /\ HasValue(read, FlagPrintStates)
          /\ ~HasFlag(read, FlagOutput)
       \/ /\ HasValue(read, FlagOutput)
          /\ ~HasFlag(read, FlagSolve)

\* C24: buildSatArgs either fails with BadRequestError or returns arguments
\* that start with --input <jsonPath>, hold exactly one of -d and -l, and
\* hold either --solve and --print-states with a non-blank value and no
\* --output, or --output with a non-blank value and no --solve; it fails
\* when the mode is neither differential nor linear, when solve is enabled
\* without a non-blank printStates, and when solve is disabled without a
\* non-blank outputPath.
C24_SatArguments ==
  \A k \in DOMAIN satArgs :
    /\ IF satArgs[k].threw THEN satArgs[k].error.name = "BadRequestError"
       ELSE SatArgsWellFormed(satArgs[k].value)
    /\ options.mode \notin {JsString(Differential), JsString(Linear)} => satArgs[k].threw
    /\ Truthy(options.solve) /\ Without(options.printStates) => satArgs[k].threw
    /\ ~Truthy(options.solve) /\ Without(options.outputPath) => satArgs[k].threw

\* Arguments were built to solve, with an input-bits word that is also a
\* flag and after a padded print-states value.
C24_Witness ==
  /\ satArgs # <<>>
  /\ ~satArgs[1].threw
  /\ options.inputBits = JsString(FlagD)
  /\ options.printStates = JsString(<<" ", "a", " ">>)
  /\ FlagSolve \in {satArgs[1].value[k] : k \in DOMAIN satArgs[1].value}

\* ------------------------------------------ server/bonc: the run lock and runs

AnotherRunInProgress == "Another run is already in progress."

acquireRunLock_Unchecked(inProgress) == Return(TRUE)

\* acquireRunLock(): throws while a run is in progress; otherwise the caller
\* sets runInProgress and holds the release function.
acquireRunLock(inProgress) ==
  IF inProgress
  THEN Throw([name |-> "RunInProgressError", message |-> AnotherRunInProgress])
  ELSE Return(TRUE)

Released_Always(release, inProgress) == FALSE

\* runInProgress after the handler's finally: if (release) release().
Released(release, inProgress) == IF release THEN FALSE ELSE inProgress

CommandFailed_Never(exitCode) == FALSE

\* result.exitCode !== 0
CommandFailed(exitCode) == exitCode # 0

\* The status the handler's return or catch answers with.
StatusOf(outcome) ==
  CASE outcome = "ok" -> 200
    [] outcome = "RunInProgressError" -> 409
    [] outcome = "BadRequestError" -> 400
    [] outcome = "Error" -> 500

\* The commands a run gives to runCommand, in the order of its code.
CommandsOf(kind) ==
  IF kind = "compile" THEN <<"bonc-clang", "bonc-frontend">> ELSE <<"bonc-backend">>

\* The exit codes of a tool.
ExitCodes == {0, 1}

Step(step, label, code) == [step |-> step, label |-> label, code |-> code]

\* The run of the request ends: its promise settles, and the handler goes on
\* at its return or its catch later.
Settled(request, outcome) == [request EXCEPT !.pc = "settled", !.outcome = outcome]

InitServer ==
  /\ PermIdle
  /\ NetIdle
  /\ PageIdle
  /\ TraceIdle
  /\ BlockIdle
  /\ ListIdle
  /\ SatIdle
  /\ PtyIdle
  /\ ServerIdle

\* A request reaches its handler, which starts to read the body.
Arrive(r) ==
  /\ requests[r].pc = "idle"
  /\ \E kind \in {"compile", "run-backend"} :
       requests' = [requests EXCEPT ![r] =
                      [@ EXCEPT !.kind = kind, !.pc = "body",
                                !.arrivedLocked = runInProgress]]
  /\ UNCHANGED <<runInProgress, permVars, netVars, pageVars, traceVars, blockVars,
                 listVars, satVars, ptyVars>>

\* The body is read. /api/run-backend answers 400 when the backend or the
\* JSON path is missing; otherwise the handler calls acquireRunLock, and is
\* answered 409 through its catch and finally when that throws.
Enter(r) ==
  /\ requests[r].pc = "body"
  /\ \E complete \in (IF requests[r].kind = "run-backend" THEN BOOLEAN ELSE {TRUE}) :
       IF ~complete
       THEN /\ requests' = [requests EXCEPT ![r] = [@ EXCEPT !.pc = "done", !.status = 400]]
            /\ UNCHANGED <<runInProgress, permVars, netVars, pageVars, traceVars, blockVars,
                 listVars, satVars, ptyVars>>
       ELSE IF acquireRunLock(runInProgress).threw
            THEN /\ requests' = [requests EXCEPT ![r] =
                                   [@ EXCEPT !.pc = "done", !.triedLocked = runInProgress,
                                             !.outcome = "RunInProgressError",
                                             !.status = StatusOf("RunInProgressError")]]
                 /\ runInProgress' = Released(requests[r].release, runInProgress)
            ELSE /\ requests' = [requests EXCEPT ![r] =
                                   [@ EXCEPT !.pc = "called", !.triedLocked = runInProgress,
                                             !.release = TRUE,
                                             !.commands = CommandsOf(requests[r].kind)]]
                 /\ runInProgress' = TRUE
  /\ UNCHANGED <<permVars, netVars, pageVars, traceVars, blockVars, listVars, satVars, ptyVars>>

\* compile: the settings are read and both executables required.
\* runBackend: the JSON file must exist, the settings are read and the
\* command is built. Each check fails with BadRequestError.
Prepare(r) ==
  /\ requests[r].pc = "called"
  /\ \E accepted \in BOOLEAN :
       requests' = [requests EXCEPT ![r] =
                      IF ~accepted THEN Settled(@, "BadRequestError")
                      ELSE [@ EXCEPT !.pc = IF requests[r].kind = "compile" THEN "write" ELSE "spawn"]]
  /\ UNCHANGED <<runInProgress, permVars, netVars, pageVars, traceVars, blockVars,
                 listVars, satVars, ptyVars>>

\* compile: the run directory is made and temp.c written, or that fails.
WriteTempC(r) ==
  /\ requests[r].pc = "write"
  /\ \E written \in BOOLEAN :
       requests' = [requests EXCEPT ![r] =
                      IF ~written THEN Settled(@, "Error")
                      ELSE [@ EXCEPT !.pc = "spawn",
                                     !.steps = Append(@, Step("write", "temp.c", 0))]]
  /\ UNCHANGED <<runInProgress, permVars, netVars, pageVars, traceVars, blockVars,
                 listVars, satVars, ptyVars>>

\* runPtyCommand starts the next command.
Spawn(r) ==
  /\ requests[r].pc = "spawn"
  /\ requests' = [requests EXCEPT ![r] =
                    [@ EXCEPT !.pc = "running",
                              !.steps = Append(@, Step("start", Head(requests[r].commands), 0))]]
  /\ UNCHANGED <<runInProgress, permVars, netVars, pageVars, traceVars, blockVars,
                 listVars, satVars, ptyVars>>

\* The command exits. runCommand throws on an exit code other than 0;
\* otherwise the run goes on with its next command, with the listing of the
\* JSON files (compile), or returns (runBackend).
Exit(r) ==
  /\ requests[r].pc = "running"
  /\ \E exitCode \in ExitCodes :
       \A exited \in {[requests[r] EXCEPT
                        !.steps = Append(@, Step("exit", Head(requests[r].commands), exitCode)),
                        !.commands = Tail(@)]} :
         requests' = [requests EXCEPT ![r] =
                        IF CommandFailed(exitCode) THEN Settled(exited, "Error")
                        ELSE IF exited.commands # <<>> THEN [exited EXCEPT !.pc = "spawn"]
                        ELSE IF exited.kind = "compile" THEN [exited EXCEPT !.pc = "list"]
                        ELSE Settled(exited, "ok")]
  /\ UNCHANGED <<runInProgress, permVars, netVars, pageVars, traceVars, blockVars,
                 listVars, satVars, ptyVars>>

\* compile lists temp-out/bonc_*.json and returns.
List(r) ==
  /\ requests[r].pc = "list"
  /\ requests' = [requests EXCEPT ![r] =
                    Settled([@ EXCEPT !.steps = Append(@, Step("list", "bonc_*.json", 0))],
                            "ok")]
  /\ UNCHANGED <<runInProgress, permVars, netVars, pageVars, traceVars, blockVars,
                 listVars, satVars, ptyVars>>

\* The handler goes on after its await: it answers from its return or its
\* catch, and its finally releases the lock.
Finish(r) ==
  /\ requests[r].pc = "settled"
  /\ requests' = [requests EXCEPT ![r] =
                    [@ EXCEPT !.pc = "done", !.status = StatusOf(requests[r].outcome)]]
  /\ runInProgress' = Released(requests[r].release, runInProgress)
  /\ UNCHANGED <<permVars, netVars, pageVars, traceVars, blockVars, listVars, satVars, ptyVars>>

NextServer ==
  \/ \E r \in 1..MaxRequests : Arrive(r)
  \/ \E r \in 1..MaxRequests : Enter(r)
  \/ \E r \in 1..MaxRequests : Prepare(r)
  \/ \E r \in 1..MaxRequests : WriteTempC(r)
  \/ \E r \in 1..MaxRequests : Spawn(r)
  \/ \E r \in 1..MaxRequests : Exit(r)
  \/ \E r \in 1..MaxRequests : List(r)
  \/ \E r \in 1..MaxRequests : Finish(r)

SpecServer == InitServer /\ [][NextServer]_vars

\* ------------------------------------------------------- claims on the runs

\* The names of the steps a run took, and the steps of compile in order.
StepNames(steps) == [k \in DOMAIN steps |-> <<steps[k].step, steps[k].label>>]

CompileSteps ==
  <<<<"write", "temp.c">>, <<"start", "bonc-clang">>, <<"exit", "bonc-clang">>,
    <<"start", "bonc-frontend">>, <<"exit", "bonc-frontend">>, <<"list", "bonc_*.json">>>>

Compiles == {r \in DOMAIN requests : requests[r].kind = "compile"}

\* C25: compile performs its steps strictly in order: write temp.c, run
\* bonc-clang, run bonc-frontend, list bonc_*.json; bonc-frontend is
\* started only after bonc-clang has exited with code 0, the list is returned
\* only after bonc-frontend has exited with code 0, and an exit code other
\* than 0 ends the compile with an error without starting a later step.
C25_CompileInOrder ==
  \A r \in Compiles :
    \A steps \in {requests[r].steps} :
      /\ Len(steps) <= Len(CompileSteps)
      /\ StepNames(steps) = SubSeq(CompileSteps, 1, Len(steps))
      /\ \A k \in DOMAIN steps :
           /\ steps[k].step = "start" /\ steps[k].label = "bonc-frontend"
                => steps[k - 1].code = 0
           /\ steps[k].step = "list" => steps[k - 1].code = 0
           /\ steps[k].step = "exit" /\ steps[k].code # 0
                => /\ k = Len(steps)
                   /\ requests[r].outcome = "Error"
                   /\ requests[r].pc = "done" => requests[r].status = 500
      /\ requests[r].outcome = "ok" => Len(steps) = Len(CompileSteps)

\* A compile went through all its steps and was answered 200, and another
\* ended at bonc-clang's exit code 1.
C25_Witness ==
  \E r, q \in Compiles :
    /\ requests[r].status = 200
    /\ Len(requests[r].steps) = Len(CompileSteps)
    /\ requests[q].status = 500
    /\ Len(requests[q].steps) = 3
    /\ requests[q].steps[3].code = 1

\* The requests between a successful acquireRunLock and its release.
Holding == {r \in DOMAIN requests : requests[r].release /\ requests[r].pc # "done"}

Started(r) == \E k \in DOMAIN requests[r].steps : requests[r].steps[k].step = "start"

\* C26 as stated: at most one request is between a successful
\* acquireRunLock and its release, and a request that arrives while another
\* holds the lock is answered with 409 and starts no external process.
C26_ArrivalRejected ==
  /\ Cardinality(Holding) <= 1
  /\ \A r \in DOMAIN requests :
       requests[r].arrivedLocked
         => /\ ~Started(r)
            /\ requests[r].pc = "done" => requests[r].status = 409

\* C26: at most one request is between a successful acquireRunLock and its
\* release, and a request that calls acquireRunLock while another holds the
\* lock is answered with 409 and starts no external process.
C26_OneRunAtATime ==
  /\ Cardinality(Holding) <= 1
  /\ \A r \in DOMAIN requests :
       requests[r].triedLocked
         => /\ ~Started(r)
            /\ requests[r].pc = "done"
            /\ requests[r].status = 409

\* A request was answered 409 while the other one's command was running.
C26_Witness ==
  \E r, q \in DOMAIN requests :
    /\ requests[r].triedLocked
    /\ requests[r].status = 409
    /\ requests[q].pc = "running"

\* C27: a request that acquired the lock releases it when its handler
\* finishes, however its run ended; a request answered 409 does not clear
\* the lock; so runInProgress is true exactly while one handler is between
\* acquire and release.
C27_LockFollowsHolder ==
  /\ runInProgress <=> Holding # {}
  /\ \A r \in DOMAIN requests :
       requests[r].pc = "done" /\ requests[r].status = 409
         => ~requests[r].release

\* C27: once the handler that held the lock has ended, a later request
\* acquires it.
C27_Witness ==
  \E r, q \in DOMAIN requests :
    /\ requests[r].release /\ requests[r].pc = "done"
    /\ requests[r].status \in {400, 500}
    /\ ~requests[q].arrivedLocked /\ requests[q].release /\ requests[q].pc = "running"

\* ------------------------------------ routes/index: the print-state collector

PRINT_STATE_BEGIN ==
  <<"#", "#", "#", " ", "p", "r", "i", "n", "t", "-", "s", "t", "a", "t", "e", " ",
    "b", "e", "g", "i", "n">>
PRINT_STATE_END ==
  <<"#", "#", "#", " ", "p", "r", "i", "n", "t", "-", "s", "t", "a", "t", "e", " ",
    "e", "n", "d">>

\* The escape character.
Esc == "ESC"

\* line.includes(marker)
Includes(line, marker) ==
  \E i \in 1..(Len(line) - Len(marker) + 1) : SubSeq(line, i, i + Len(marker) - 1) = marker

\* The end of the match of /\u001b\[[0-9;]*m/ that starts at position i, or 0.
RECURSIVE AnsiEnd(_, _)
AnsiEnd(value, i) ==
  IF i > Len(value) THEN 0
  ELSE IF value[i] = "m" THEN i
  ELSE IF value[i] = ";" \/ IsDigit(value[i], 10) THEN AnsiEnd(value, i + 1)
  ELSE 0

RECURSIVE StripFrom(_, _)
StripFrom(value, i) ==
  IF i > Len(value) THEN <<>>
  ELSE IF value[i] = Esc /\ i < Len(value) /\ value[i + 1] = "[" /\ AnsiEnd(value, i + 2) # 0
       THEN StripFrom(value, AnsiEnd(value, i + 2) + 1)
       ELSE <<value[i]>> \o StripFrom(value, i + 1)

\* value.replace(/\u001b\[[0-9;]*m/g, '')
stripAnsi(value) == StripFrom(value, 1)

\* chunk.replace(/\r/g, '')
WithoutReturns(chunk) == SelectSeq(chunk, LAMBDA c : c # "\r")

\* text.split('\n')
SplitLines(text) ==
  LET ends == {i \in DOMAIN text : text[i] = "\n"}
      count == Cardinality(ends) + 1
      EndOf(k) ==
        IF k = 0 THEN 0
        ELSE IF k = count THEN Len(text) + 1
        ELSE CHOOSE i \in ends : Cardinality({j \in ends : j < i}) = k - 1
  IN [k \in 1..count |-> SubSeq(text, EndOf(k - 1) + 1, EndOf(k) - 1)]

Joined_ChunkOnly(buffer, chunk) == WithoutReturns(chunk)

\* collector.buffer + chunk.replace(/\r/g, '')
Joined(buffer, chunk) == buffer \o WithoutReturns(chunk)

\* One turn of the loop over the complete lines: the collector and the calls
\* of onComplete after the line.
FeedLine(fedSoFar, line) ==
  IF ~fedSoFar.collector.collecting /\ Includes(line, PRINT_STATE_BEGIN)
  THEN [fedSoFar EXCEPT !.collector.collecting = TRUE, !.collector.lines = <<>>]
  ELSE IF fedSoFar.collector.collecting /\ Includes(line, PRINT_STATE_END)
  THEN [collector |-> [fedSoFar.collector EXCEPT !.collecting = FALSE, !.lines = <<>>],
        calls |-> Append(fedSoFar.calls, fedSoFar.collector.lines)]
  ELSE IF fedSoFar.collector.collecting
  THEN [fedSoFar EXCEPT !.collector.lines = Append(@, Trim(stripAnsi(line)))]
  ELSE fedSoFar

RECURSIVE FeedLines(_, _)
FeedLines(fedSoFar, lines) ==
  IF lines = <<>> THEN fedSoFar
  ELSE FeedLines(FeedLine(fedSoFar, Head(lines)), Tail(lines))

\* feedPrintStateChunk(chunk, collector, onComplete): the collector after the
\* call, and calls with the arguments of onComplete appended.
feedPrintStateChunk(chunk, collector_, calls) ==
  \* normalized, before the pop
  LET normalized == SplitLines(Joined(collector_.buffer, chunk))
  IN FeedLines([collector |-> [collector_ EXCEPT !.buffer = normalized[Len(normalized)]],
                calls |-> calls],
               SubSeq(normalized, 1, Len(normalized) - 1))

\* ------------------------------------------------- the terminal's output

\* Pieces of output: a begin marker line with a line of a trace after it,
\* the end marker with and without its line end, a coloured line with an
\* empty line after it, and a line that holds both markers.
PtyPieces ==
  {PRINT_STATE_BEGIN \o <<"\r", "\n", " ", "1", "-", "\r", "\n">>,
   PRINT_STATE_END \o <<"\n">>,
   PRINT_STATE_END,
   <<Esc, "[", "0", "m", "8", Esc, "[", "x", "\n", "\n">>,
   PRINT_STATE_BEGIN \o PRINT_STATE_END \o <<"\n">>}

RECURSIVE Concat(_)
Concat(pieces) == IF pieces = <<>> THEN <<>> ELSE Head(pieces) \o Concat(Tail(pieces))

InitPty ==
  /\ PermIdle
  /\ NetIdle
  /\ PageIdle
  /\ TraceIdle
  /\ BlockIdle
  /\ ListIdle
  /\ SatIdle
  /\ ServerIdle
  /\ \E n \in 0..MaxPieces : \E pieces \in [1..n -> PtyPieces] : stream = Concat(pieces)
  /\ fed = 0
  /\ collector = createCollector
  /\ completed = <<>>

\* The next chunk of the output arrives, of any length; handlePty feeds it
\* to the collector.
HandlePty ==
  \E n \in 1..(Len(stream) - fed) :
    \A after \in {feedPrintStateChunk(SubSeq(stream, fed + 1, fed + n), collector, completed)} :
      /\ fed' = fed + n
      /\ collector' = after.collector
      /\ completed' = after.calls
      /\ UNCHANGED <<permVars, netVars, pageVars, traceVars, blockVars, listVars, satVars,
                     serverVars, stream>>

NextPty == HandlePty

SpecPty == InitPty /\ [][NextPty]_vars

\* --------------------------------------------- claims on the collector

\* The output that has arrived, and its newline-terminated lines.
Arrived == SubSeq(stream, 1, fed)

TerminatedLines(output) ==
  LET pieces == SplitLines(WithoutReturns(output))
  IN SubSeq(pieces, 1, Len(pieces) - 1)

\* The first line from a position on that holds the marker, or 0.
FirstWith(lines, marker, from) ==
  IF \E k \in from..Len(lines) : Includes(lines[k], marker)
  THEN CHOOSE k \in from..Len(lines) :
         /\ Includes(lines[k], marker)
         /\ \A j \in from..(k - 1) : ~Includes(lines[j], marker)
  ELSE 0

\* What a terminal shows of a line: without colour codes and outer blanks.
Shown(line) == Trim(stripAnsi(line))

\* The blocks of the lines: from the first begin marker to the first end
\* marker after it, and so on after that end marker.
RECURSIVE BlocksFrom(_, _)
BlocksFrom(lines, from) ==
  LET begin == FirstWith(lines, PRINT_STATE_BEGIN, from)
      end == IF begin = 0 THEN 0 ELSE FirstWith(lines, PRINT_STATE_END, begin + 1)
  IN IF begin = 0 \/ end = 0 THEN <<>>
     ELSE <<[k \in 1..(end - begin - 1) |-> Shown(lines[begin + k])]>>
          \o BlocksFrom(lines, end + 1)

BlocksOf(lines) == BlocksFrom(lines, 1)

\* The last line that arrived ended a block.
BlockJustEnded(lines) ==
  /\ lines # <<>>
  /\ Arrived[fed] = "\n"
  /\ Len(BlocksOf(lines)) > Len(BlocksOf(SubSeq(lines, 1, Len(lines) - 1)))

\* C28: however the output is split into chunks, onComplete has been called
\* once for each begin marker line seen while not collecting that a
\* newline-terminated end marker line follows, with the lines between the
\* two in order; an end marker seen while not collecting is ignored; after
\* a completion the collector is not collecting and holds no lines; and the
\* calls and the collector are those of feeding the output as one chunk.
C28_BlocksCompleted ==
  \A lines \in {TerminatedLines(Arrived)} :
    /\ completed = BlocksOf(lines)
    /\ BlockJustEnded(lines) => ~collector.collecting /\ collector.lines = <<>>
    /\ [collector |-> collector, calls |-> completed]
         = feedPrintStateChunk(Arrived, createCollector, <<>>)

\* A block with a line in it has been completed, and the chunk after it
\* ended within a line.
C28_Witness ==
  /\ completed # <<>>
  /\ completed[1] # <<>>
  /\ collector.buffer # <<>>

\* --------------------------------------------- claims on the handoff messages

\* C29: only the first handoff message initializes the page: once a message
\* has been processed (initializedFromSearch is set), a later message leaves
\* formState and highlightBits as they are. A step that could as well be
\* the typing of a field is not counted as a message.
C29_OnlyFirstMessage ==
  [][initializedFromSearch /\ OnMessage /\ ~OnChange
       => formState' = formState /\ highlightBits' = highlightBits]_vars

\* ------------------------------- claims on the rounds and the stages together

\* The substitution stages of a round.
SBoxStagesOf(r) ==
  {k \in DOMAIN stageData : stageData[k].type = "sbox" /\ stageData[k].roundIndex = r}

\* C30: for a layout without round-layout text the rounds of
\* generateSequentialRounds agree with the stages of buildStages: the k-th
\* S-box of round r holds the bits at positions k*sBoxSize to
\* (k+1)*sBoxSize-1 of round r's substitution stage, with or without the
\* final permutation; and both applyPermutation give the same order for the
\* P-box, a bijection, on every stage's order.
C30_RoundsAgreeWithStages ==
  HasStages =>
    /\ \A r \in 0..(Len(config.rounds) - 1) :
         /\ Cardinality(SBoxStagesOf(r)) = 1
         /\ Len(config.rounds[r + 1].sBoxes) * config.sBox.size = config.blockSize
         /\ \A s \in SBoxStagesOf(r) :
              \A k \in 0..(Len(config.rounds[r + 1].sBoxes) - 1) :
                config.rounds[r + 1].sBoxes[k + 1].bitIndexes
                  = ArraySliceRange(stageData[s].bits, k * config.sBox.size,
                                    (k + 1) * config.sBox.size)
    /\ \A r \in 0..(config.numberOfRounds - 1) : r < Len(config.rounds)
    /\ IsBijection(config.pBox, config.blockSize)
    /\ \A s \in DOMAIN stageData :
         applyPermutation(stageData[s].bits, config.pBox)
           = SPNDiagram_applyPermutation(stageData[s].bits, config.pBox)

\* Two rounds with a final permutation over a P-box that moves bits: the
\* second round's S-boxes are slices of a permuted order.
C30_Witness ==
  /\ HasStages
  /\ config.applyFinalPermutation
  /\ config.numberOfRounds = 2
  /\ config.blockSize = 2
  /\ config.sBox.size = 1
  /\ config.pBox # IdentityArray(2)
  /\ config.rounds[2].sBoxes[1].bitIndexes # config.rounds[1].sBoxes[1].bitIndexes

====
